---- MODULE Spec2Model ----
(***************************************************************************)
(* Authentication / session core of the user-service: AuthJwtService       *)
(* (token issuance, verification, refresh, blacklist), AuthService         *)
(* (register, login, logout), AuthController.logout and the Redis          *)
(* revocation store they talk to.                                          *)
(*                                                                         *)
(* Time is the value of Math.floor(Date.now() / 1000): whole seconds since *)
(* the epoch.  Every handler runs atomically at one clock value.           *)
(***************************************************************************)
EXTENDS Integers, Sequences, FiniteSets, TLC

VARIABLES
    now,        \* Math.floor(Date.now() / 1000)
    redisUp,    \* whether the Redis client answers commands
    store,      \* Redis keyspace: key -> [value, expireAt]
    users,      \* rows of the users table
    issued,     \* the TokenResponse of every successful login
    refreshed,  \* (refresh token, access token) pairs returned by refreshAccessToken
    uuidCount,  \* number of randomUUID() values drawn so far
    res,        \* the last call: operation, arguments, outcome
    registering, \* register calls in progress: position and locals of each
    prisma,     \* the user and bankingDetails rows UsersService works on
    rabbit,     \* RabbitMQService: connection, channel, what was published
    requests    \* requests to UsersController in progress: position, locals

\* the state of the users endpoints
usersVars == <<prisma, rabbit, requests>>

vars ==
    <<now, redisUp, store, users, issued, refreshed, uuidCount, res,
      registering, prisma, rabbit, requests>>

----------------------------------------------------------------------------
(* Bounds of the model *)

\* the clock value at which the model starts (seconds since the epoch)
StartTime == 1700000000
\* how many randomUUID() values may be drawn
MaxUuid == 2
\* how many rows the users table may hold
MaxUsers == 1
\* how many register calls may be in progress at once
MaxProcs == 2
\* how many roles a @Roles(...) declaration may list
MaxRequiredRoles == 2
\* requests to UsersController that may be in progress at the same time
MaxClients == 1
\* events the exchange holds at most
MaxEvents == 2
\* reconnect callbacks the event loop holds at most, scheduled or about to be
MaxTimers == 6
\* connection objects that are open or closing at the same time
MaxConnections == 2
\* messages the consumer callback is called with
MaxMessages == 2

\* RabbitMQService: maxReconnectAttempts, the initial reconnectDelay and the
\* limit of the delay, in milliseconds
maxReconnectAttempts == 10
InitialReconnectDelay == 1000
MaxReconnectDelay == 30000

\* seconds after StartTime the clock may jump to
TimeOffsets == {0, 1200, 604800}
TimePoints == {StartTime + d : d \in TimeOffsets}

----------------------------------------------------------------------------
(* Configuration of AuthJwtService *)

AccessTokenSecret == "your-super-secret-jwt-key-change-in-production"
\* a deployment that gives the refresh secret the access secret's value
RefreshTokenSecret_SameAsAccess == AccessTokenSecret
RefreshTokenSecret == "your-super-secret-refresh-jwt-key-change-in-production"

\* '20m' and '7d': a number followed by a unit
AccessTokenExpiresIn == [n |-> 20, unit |-> "m"]
RefreshTokenExpiresIn == [n |-> 7, unit |-> "d"]

\* seconds in a lifetime string (s, m, h, d)
LifetimeSeconds(l) ==
    CASE l.unit = "s" -> l.n
      [] l.unit = "m" -> l.n * 60
      [] l.unit = "h" -> l.n * 60 * 60
      [] l.unit = "d" -> l.n * 24 * 60 * 60

\* fallback windows of AuthService.logout when a payload has no exp
LogoutAccessFallback == 1200
LogoutRefreshFallback == 604800

----------------------------------------------------------------------------
(* Tokens *)

NoRole == "undefined"
NoJti == <<>>
NoToken == [sig |-> "absent"]

\* the n-th value of randomUUID()
RandomUUID(n) == <<"uuid", n>>

\* JwtPayload as built by the service before signing (sub, email, jti)
JwtPayload(sub, email, jti) ==
    [sub |-> sub, email |-> email, role |-> NoRole, jti |-> jti]

\* jwtService.signAsync(payload, {secret, expiresIn}): adds iat and exp
SignAsync(payload, secret, expiresIn) ==
    [sig |-> secret,
     claims |-> [sub |-> payload.sub, email |-> payload.email,
                 role |-> payload.role, jti |-> payload.jti,
                 iat |-> now, hasExp |-> TRUE,
                 exp |-> now + LifetimeSeconds(expiresIn)]]

\* verifyAsync accepting a token at the very second of its exp
VerifyAsync_ExpiryExclusive(token, secret) ==
    IF token.sig # secret
    THEN [thrown |-> TRUE, cause |-> "JsonWebTokenError"]
    ELSE IF token.claims.hasExp /\ now > token.claims.exp
    THEN [thrown |-> TRUE, cause |-> "TokenExpiredError"]
    ELSE [thrown |-> FALSE, cause |-> "", payload |-> token.claims]

\* jwtService.verifyAsync(token, {secret}): malformed, wrongly signed and
\* expired tokens are rejected; otherwise the claims are returned
VerifyAsync(token, secret) ==
    IF token.sig # secret
    THEN [thrown |-> TRUE, cause |-> "JsonWebTokenError"]
    ELSE IF token.claims.hasExp /\ now >= token.claims.exp
    THEN [thrown |-> TRUE, cause |-> "TokenExpiredError"]
    ELSE [thrown |-> FALSE, cause |-> "", payload |-> token.claims]

----------------------------------------------------------------------------
(* RedisService *)

\* `token:blacklist:${jti}`
BlacklistKey(jti) == <<"token:blacklist", jti>>

\* the keyspace with key bound to entry
Put(s, key, entry) ==
    [k \in DOMAIN s \cup {key} |-> IF k = key THEN entry ELSE s[k]]

\* keys whose TTL has run out are gone
Unexpired(s, t) ==
    [k \in {x \in DOMAIN s : ~s[x].hasTtl \/ t < s[x].expireAt} |-> s[k]]

\* RedisService.set(key, value, ttl): SETEX when ttl is given, else SET
RedisSet(s, key, value, ttl) ==
    IF ~redisUp
    THEN [thrown |-> TRUE, store |-> s]
    ELSE IF ttl # 0
    THEN [thrown |-> FALSE,
          store |-> Put(s, key, [value |-> value, hasTtl |-> TRUE,
                                  expireAt |-> now + ttl])]
    ELSE [thrown |-> FALSE,
          store |-> Put(s, key, [value |-> value, hasTtl |-> FALSE,
                                  expireAt |-> 0])]

\* RedisService.exists(key): 1 or 0, or the client's error
RedisExists(s, key) ==
    IF ~redisUp
    THEN [thrown |-> TRUE, value |-> 0]
    ELSE [thrown |-> FALSE, value |-> IF key \in DOMAIN s THEN 1 ELSE 0]

----------------------------------------------------------------------------
(* AuthJwtService *)

Unauthorized(message) ==
    [type |-> "UnauthorizedException", message |-> message]
NoError == [type |-> "", message |-> ""]

Max(a, b) == IF a > b THEN a ELSE b

\* isTokenBlacklisted looking under another key than blacklistToken writes
IsTokenBlacklisted_WrongKey(s, jti) ==
    IF jti = NoJti
    THEN [thrown |-> FALSE, value |-> FALSE, calls |-> 0]
    ELSE LET exists == RedisExists(s, <<"blacklist", jti>>)
         IN  [thrown |-> exists.thrown, value |-> exists.value = 1,
              calls |-> 1]

\* isTokenBlacklisted answering false when the store call fails
IsTokenBlacklisted_FailOpen(s, jti) ==
    IF jti = NoJti
    THEN [thrown |-> FALSE, value |-> FALSE, calls |-> 0]
    ELSE LET exists == RedisExists(s, BlacklistKey(jti))
         IN  [thrown |-> FALSE,
              value |-> ~exists.thrown /\ exists.value = 1,
              calls |-> 1]

\* isTokenBlacklisted without the early return for a missing jti
IsTokenBlacklisted_NoGuard(s, jti) ==
    LET exists == RedisExists(s, BlacklistKey(jti))
    IN  [thrown |-> exists.thrown, value |-> exists.value = 1, calls |-> 1]

\* isTokenBlacklisted(jti?): calls counts the store calls made
IsTokenBlacklisted(s, jti) ==
    IF jti = NoJti
    THEN [thrown |-> FALSE, value |-> FALSE, calls |-> 0]
    ELSE LET exists == RedisExists(s, BlacklistKey(jti))
         IN  [thrown |-> exists.thrown, value |-> exists.value = 1,
              calls |-> 1]

\* verifyAccessToken whose catch lets the 'Token revogado' exception through
VerifyAccessToken_LeaksRevoked(s, token) ==
    LET v == VerifyAsync(token, AccessTokenSecret)
    IN  IF v.thrown
        THEN [thrown |-> TRUE, calls |-> 0,
              error |-> Unauthorized("Token invalido ou expirado")]
        ELSE LET isBlacklisted == IsTokenBlacklisted(s, v.payload.jti)
             IN  IF isBlacklisted.thrown
                 THEN [thrown |-> TRUE, calls |-> isBlacklisted.calls,
                       error |-> Unauthorized("Token invalido ou expirado")]
                 ELSE IF isBlacklisted.value
                 THEN [thrown |-> TRUE, calls |-> isBlacklisted.calls,
                       error |-> Unauthorized("Token revogado")]
                 ELSE [thrown |-> FALSE, calls |-> isBlacklisted.calls,
                       error |-> NoError, payload |-> v.payload]

\* verifyAccessToken(token): every failure inside the try block, the
\* 'Token revogado' exception included, leaves as the one generic error
VerifyAccessToken(s, token) ==
    LET v == VerifyAsync(token, AccessTokenSecret)
    IN  IF v.thrown
        THEN [thrown |-> TRUE, calls |-> 0,
              error |-> Unauthorized("Token invalido ou expirado")]
        ELSE LET isBlacklisted == IsTokenBlacklisted(s, v.payload.jti)
             IN  IF isBlacklisted.thrown \/ isBlacklisted.value
                 THEN [thrown |-> TRUE, calls |-> isBlacklisted.calls,
                       error |-> Unauthorized("Token invalido ou expirado")]
                 ELSE [thrown |-> FALSE, calls |-> isBlacklisted.calls,
                       error |-> NoError, payload |-> v.payload]

\* verifyRefreshToken(token)
VerifyRefreshToken(s, token) ==
    LET v == VerifyAsync(token, RefreshTokenSecret)
    IN  IF v.thrown
        THEN [thrown |-> TRUE, calls |-> 0,
              error |-> Unauthorized("Refresh token invalido ou expirado")]
        ELSE LET isBlacklisted == IsTokenBlacklisted(s, v.payload.jti)
             IN  IF isBlacklisted.thrown \/ isBlacklisted.value
                 THEN [thrown |-> TRUE, calls |-> isBlacklisted.calls,
                       error |-> Unauthorized("Refresh token invalido ou expirado")]
                 ELSE [thrown |-> FALSE, calls |-> isBlacklisted.calls,
                       error |-> NoError, payload |-> v.payload]

\* blacklistToken writing also when no lifetime remains (ttl >= 0)
BlacklistToken_WritesAtZero(s, jti, expiresIn) ==
    LET key == BlacklistKey(jti)
        ttl == Max(expiresIn - now, 0)
    IN  IF ttl >= 0
        THEN LET w == RedisSet(s, key, [jti |-> jti, revokedAt |-> now], ttl)
             IN  [thrown |-> w.thrown, store |-> w.store,
                  writes |-> IF w.thrown THEN <<>>
                             ELSE <<[key |-> key, ttl |-> ttl]>>]
        ELSE [thrown |-> FALSE, store |-> s, writes |-> <<>>]

\* blacklistToken(jti, expiresIn): writes is the list of SETEX commands
\* that reached the store
BlacklistToken(s, jti, expiresIn) ==
    LET key == BlacklistKey(jti)
        ttl == Max(expiresIn - now, 0)
    IN  IF ttl > 0
        THEN LET w == RedisSet(s, key, [jti |-> jti, revokedAt |-> now], ttl)
             IN  [thrown |-> w.thrown, store |-> w.store,
                  writes |-> IF w.thrown THEN <<>>
                             ELSE <<[key |-> key, ttl |-> ttl]>>]
        ELSE [thrown |-> FALSE, store |-> s, writes |-> <<>>]

\* generateTokens signing each payload with the other class's secret
GenerateTokens_SwappedSecrets(userId, email, jti) ==
    LET accessTokenPayload == JwtPayload(userId, email, jti)
        refreshTokenPayload == JwtPayload(userId, email, jti)
    IN  [accessToken |-> SignAsync(accessTokenPayload, RefreshTokenSecret,
                                   AccessTokenExpiresIn),
         refreshToken |-> SignAsync(refreshTokenPayload, AccessTokenSecret,
                                    RefreshTokenExpiresIn)]

\* generateTokens(userId, email): one jti for both payloads
GenerateTokens(userId, email, jti) ==
    LET accessTokenPayload == JwtPayload(userId, email, jti)
        refreshTokenPayload == JwtPayload(userId, email, jti)
    IN  [accessToken |-> SignAsync(accessTokenPayload, AccessTokenSecret,
                                   AccessTokenExpiresIn),
         refreshToken |-> SignAsync(refreshTokenPayload, RefreshTokenSecret,
                                    RefreshTokenExpiresIn)]

\* refreshAccessToken keeping the refresh token's jti
NewAccessToken_SameJti(payload, jti) ==
    LET newAccessTokenPayload ==
            JwtPayload(payload.sub, payload.email, payload.jti)
    IN  SignAsync(newAccessTokenPayload, AccessTokenSecret,
                  AccessTokenExpiresIn)

\* the access token refreshAccessToken signs from a verified payload
NewAccessToken(payload, jti) ==
    LET newAccessTokenPayload == JwtPayload(payload.sub, payload.email, jti)
    IN  SignAsync(newAccessTokenPayload, AccessTokenSecret,
                  AccessTokenExpiresIn)

\* refreshAccessToken(refreshToken)
RefreshAccessToken(s, refreshToken, jti) ==
    LET v == VerifyRefreshToken(s, refreshToken)
    IN  IF v.thrown
        THEN [thrown |-> TRUE, error |-> v.error, calls |-> v.calls]
        ELSE [thrown |-> FALSE, error |-> NoError, calls |-> v.calls,
              token |-> NewAccessToken(v.payload, jti)]

----------------------------------------------------------------------------
(* PasswordService *)

\* dkLen and saltLen of PasswordService
DkLen == 64
SaltLen == 32

\* A string of the hash format is a sequence of characters: 0..63 are the
\* characters of the base64 alphabet by their value, then '=' and ':'
Base64Pad == 64
Colon == 65
\* a character outside the base64 alphabet that is not ':' (a space, '!')
Space == 66

Min(S) == CHOOSE x \in S : \A y \in S : x <= y

\* the bytes scrypt reads for a password string (UTF-8)
Utf8(password) ==
    CASE password = "" -> <<>>
      [] password = "senha123" -> <<115, 101, 110, 104, 97, 49, 50, 51>>
      [] password = "senha456" -> <<115, 101, 110, 104, 97, 52, 53, 54>>
      [] password = "wrongpass" ->
             <<119, 114, 111, 110, 103, 112, 97, 115, 115>>
      [] password = "password1234" ->
             <<112, 97, 115, 115, 119, 111, 114, 100, 49, 50, 51, 52>>

\* buffer.toString('base64'): three bytes give four characters, the last
\* group is padded with '='
Base64(bytes) ==
    LET n == Len(bytes)
        At(k) == IF k <= n THEN bytes[k] ELSE 0
    IN  [i \in 1..(4 * ((n + 2) \div 3)) |->
            LET g == (i - 1) \div 4
                pos == (i - 1) % 4
                b1 == At(3 * g + 1)
                b2 == At(3 * g + 2)
                b3 == At(3 * g + 3)
            IN  CASE pos = 0 -> b1 \div 4
                  [] pos = 1 -> (b1 % 4) * 16 + b2 \div 16
                  [] pos = 2 -> IF 3 * g + 2 > n THEN Base64Pad
                                ELSE (b2 % 16) * 4 + b3 \div 64
                  [] pos = 3 -> IF 3 * g + 3 > n THEN Base64Pad
                                ELSE b3 % 64]

IsBase64Char(c) == c < Base64Pad

\* Buffer.from(part, 'base64'): decoding ends at the first '=', characters
\* outside the alphabet are skipped, four characters give three bytes
FromBase64(part) ==
    LET pads == {i \in 1..Len(part) : part[i] = Base64Pad}
        body == IF pads = {} THEN part ELSE SubSeq(part, 1, Min(pads) - 1)
        sx == SelectSeq(body, IsBase64Char)
        m == Len(sx)
        Sx(k) == IF k <= m THEN sx[k] ELSE 0
    IN  [j \in 1..((3 * m) \div 4) |->
            LET g == (j - 1) \div 3
                pos == (j - 1) % 3
            IN  CASE pos = 0 -> Sx(4 * g + 1) * 4 + Sx(4 * g + 2) \div 16
                  [] pos = 1 -> (Sx(4 * g + 2) % 16) * 16
                                    + Sx(4 * g + 3) \div 4
                  [] pos = 2 -> (Sx(4 * g + 3) % 4) * 64 + Sx(4 * g + 4)]

\* str.split(':'): the parts between the colons
Split(str) ==
    LET colons == {i \in 1..Len(str) : str[i] = Colon}
        n == Cardinality(colons)
        Cut(k) == IF k = 0 THEN 0
                  ELSE IF k = n + 1 THEN Len(str) + 1
                  ELSE CHOOSE i \in colons :
                           Cardinality({j \in colons : j < i}) = k - 1
    IN  [k \in 1..(n + 1) |-> SubSeq(str, Cut(k - 1) + 1, Cut(k) - 1)]

\* scrypt(password, salt, dkLen): dkLen bytes, a function of the password
\* bytes and the salt; a keyed mixing that has no collisions on the
\* passwords of the model stands for the key derivation
Scrypt(password, salt, dkLen) ==
    LET pw == Utf8(password)
        n == Len(pw)
        k == Len(salt)
    IN  [i \in 1..dkLen |->
            ((IF n = 0 THEN 0 ELSE pw[((i - 1) % n) + 1])
                + 3 * (IF k = 0 THEN 0 ELSE salt[((i - 1) % k) + 1])
                + i * (n + 1)) % 256]

\* hashPassword keeping only the first half of the derived key
HashPassword_TruncatedKey(password, salt) ==
    LET hash == Scrypt(password, salt, DkLen \div 2)
    IN  Base64(salt) \o <<Colon>> \o Base64(hash)

\* hashPassword(password): `${salt base64}:${hash base64}`; salt is the
\* value of randomBytes(saltLen)
HashPassword(password, salt) ==
    LET hash == Scrypt(password, salt, DkLen)
    IN  Base64(salt) \o <<Colon>> \o Base64(hash)

\* verifyPassword comparing lengths only
VerifyPassword_LengthOnly(password, hashedPassword) ==
    LET parts == Split(hashedPassword)
    IN  IF Len(parts) < 2 \/ parts[1] = <<>> \/ parts[2] = <<>>
        THEN FALSE
        ELSE LET salt == FromBase64(parts[1])
                 hash == Scrypt(password, salt, DkLen)
                 providedHash == FromBase64(parts[2])
             IN  Len(hash) = Len(providedHash)

\* verifyPassword(password, hashedPassword): nothing inside the try block
\* throws for the strings of the model
VerifyPassword(password, hashedPassword) ==
    LET parts == Split(hashedPassword)
    IN  IF Len(parts) < 2 \/ parts[1] = <<>> \/ parts[2] = <<>>
        THEN FALSE
        ELSE LET saltBase64 == parts[1]
                 hashBase64 == parts[2]
                 salt == FromBase64(saltBase64)
                 hash == Scrypt(password, salt, DkLen)
                 providedHash == FromBase64(hashBase64)
             IN  /\ Len(hash) = Len(providedHash)
                 /\ \A i \in 1..Len(hash) : hash[i] = providedHash[i]

----------------------------------------------------------------------------
(* AuthService *)

\* prisma.user.findUnique({ where: { email } })
FindByEmail(email) == {u \in users : u.email = email}

\* prisma.user.create on a table without the UNIQUE constraint on email
PrismaUserCreate_NoUniqueConstraint(rows, data) ==
    LET user == [id |-> <<"user", Cardinality(rows) + 1>>,
                 name |-> data.name, email |-> data.email,
                 passwordHash |-> data.passwordHash, createdAt |-> now]
    IN  [thrown |-> FALSE, error |-> NoError, users |-> rows \cup {user},
         user |-> [id |-> user.id, name |-> user.name,
                   email |-> user.email, createdAt |-> user.createdAt]]

\* prisma.user.create({ data, select }): the insert fails on the UNIQUE
\* constraint of users.email; otherwise the selected fields come back
PrismaUserCreate(rows, data) ==
    IF \E u \in rows : u.email = data.email
    THEN [thrown |-> TRUE,
          error |-> [type |-> "PrismaClientKnownRequestError",
                     message |-> "Unique constraint failed on the fields: (email)"],
          users |-> rows]
    ELSE LET user == [id |-> <<"user", Cardinality(rows) + 1>>,
                      name |-> data.name, email |-> data.email,
                      passwordHash |-> data.passwordHash, createdAt |-> now]
         IN  [thrown |-> FALSE, error |-> NoError,
              users |-> rows \cup {user},
              user |-> [id |-> user.id, name |-> user.name,
                        email |-> user.email, createdAt |-> user.createdAt]]

\* register answering with the row as stored, password hash included
Register_ReturnsRow(dto, salt) ==
    IF FindByEmail(dto.email) # {}
    THEN [thrown |-> TRUE,
          error |-> [type |-> "ConflictException",
                     message |-> "Email ja esta em uso"],
          users |-> users, hashCalls |-> 0]
    ELSE LET user == [id |-> <<"user", Cardinality(users) + 1>>,
                      name |-> dto.name, email |-> dto.email,
                      passwordHash |-> HashPassword(dto.password, salt),
                      createdAt |-> now]
         IN  [thrown |-> FALSE, error |-> NoError,
              users |-> users \cup {user}, hashCalls |-> 1,
              value |-> [message |-> "Usuario criado com sucesso",
                         user |-> user]]

\* register(registerDto): hashCalls counts the hashPassword calls made
Register(dto, salt) ==
    IF FindByEmail(dto.email) # {}
    THEN [thrown |-> TRUE,
          error |-> [type |-> "ConflictException",
                     message |-> "Email ja esta em uso"],
          users |-> users, hashCalls |-> 0]
    ELSE LET user == [id |-> <<"user", Cardinality(users) + 1>>,
                      name |-> dto.name, email |-> dto.email,
                      passwordHash |-> HashPassword(dto.password, salt),
                      createdAt |-> now]
         IN  [thrown |-> FALSE, error |-> NoError,
              users |-> users \cup {user}, hashCalls |-> 1,
              value |-> [message |-> "Usuario criado com sucesso",
                         user |-> [id |-> user.id, name |-> user.name,
                                   email |-> user.email,
                                   createdAt |-> user.createdAt]]]

\* login telling an unknown email from a wrong password
Login_DistinctErrors(dto, jti) ==
    LET found == FindByEmail(dto.email)
    IN  IF found = {}
        THEN [thrown |-> TRUE,
              error |-> Unauthorized("Usuario nao encontrado")]
        ELSE LET user == CHOOSE u \in found : TRUE
             IN  IF ~VerifyPassword(dto.password, user.passwordHash)
                 THEN [thrown |-> TRUE,
                       error |-> Unauthorized("Credenciais invalidas")]
                 ELSE LET tokens == GenerateTokens(user.id, user.email, jti)
                      IN  [thrown |-> FALSE, error |-> NoError,
                           tokens |-> tokens,
                           value |-> [accessToken |-> tokens.accessToken,
                                      refreshToken |-> tokens.refreshToken,
                                      user |-> [id |-> user.id,
                                                name |-> user.name,
                                                email |-> user.email]]]

\* login(loginDto)
Login(dto, jti) ==
    LET found == FindByEmail(dto.email)
    IN  IF found = {}
        THEN [thrown |-> TRUE,
              error |-> Unauthorized("Credenciais invalidas")]
        ELSE LET user == CHOOSE u \in found : TRUE
             IN  IF ~VerifyPassword(dto.password, user.passwordHash)
                 THEN [thrown |-> TRUE,
                       error |-> Unauthorized("Credenciais invalidas")]
                 ELSE LET tokens == GenerateTokens(user.id, user.email, jti)
                      IN  [thrown |-> FALSE, error |-> NoError,
                           tokens |-> tokens,
                           value |-> [accessToken |-> tokens.accessToken,
                                      refreshToken |-> tokens.refreshToken,
                                      user |-> [id |-> user.id,
                                                name |-> user.name,
                                                email |-> user.email]]]

\* payload.exp ? payload.exp - Math.floor(Date.now() / 1000) : fallback
RemainingOr(payload, fallback) ==
    IF payload.hasExp /\ payload.exp # 0
    THEN payload.exp - now
    ELSE fallback

\* logout: the inner try block (refresh token)
LogoutRefresh(s, refreshToken) ==
    LET refreshPayload == VerifyRefreshToken(s, refreshToken)
    IN  IF refreshPayload.thrown
        THEN [thrown |-> TRUE, store |-> s, writes |-> <<>>]
        ELSE BlacklistToken(s, refreshPayload.payload.jti,
                 RemainingOr(refreshPayload.payload, LogoutRefreshFallback))

\* logout: after the access token is blacklisted (result b), the optional
\* refresh token; the inner catch only logs
LogoutInner(b, refreshToken) ==
    IF b.thrown
    THEN [thrown |-> TRUE, store |-> b.store,
          writes |-> b.writes, log |-> <<>>]
    ELSE IF refreshToken # NoToken
    THEN LET r == LogoutRefresh(b.store, refreshToken)
         IN  [thrown |-> FALSE, store |-> r.store,
              writes |-> b.writes \o r.writes,
              log |-> IF r.thrown
                      THEN <<"warn: Erro no refresh token",
                             "log: Logout realizado">>
                      ELSE <<"log: Logout realizado">>]
    ELSE [thrown |-> FALSE, store |-> b.store,
          writes |-> b.writes,
          log |-> <<"log: Logout realizado">>]

\* logout: the outer try block
LogoutBody(s, accessToken, refreshToken) ==
    LET accessPayload == VerifyAccessToken(s, accessToken)
    IN  IF accessPayload.thrown
        THEN [thrown |-> TRUE, store |-> s, writes |-> <<>>, log |-> <<>>]
        ELSE LogoutInner(
                 BlacklistToken(s, accessPayload.payload.jti,
                     RemainingOr(accessPayload.payload,
                                 LogoutAccessFallback)),
                 refreshToken)

\* logout whose outer catch lets the error through
Logout_Rethrow(s, accessToken, refreshToken) ==
    LogoutBody(s, accessToken, refreshToken)

\* logout whose outer catch hands the error on
LogoutCatch_Rethrow(body) == body

\* logout: the outer catch only logs (body is the outcome of the try block)
LogoutCatch(body) ==
    IF body.thrown
    THEN [thrown |-> FALSE, store |-> body.store, writes |-> body.writes,
          log |-> <<"warn: Erro ao fazer logout">>]
    ELSE body

\* logout(accessToken, refreshToken?)
Logout(s, accessToken, refreshToken) ==
    LogoutCatch(LogoutBody(s, accessToken, refreshToken))

----------------------------------------------------------------------------
(* AuthController *)

\* logout(req, res): the cookie is cleared and the message returned once
\* the service call (outcome svc) is over
LogoutReply(svc) ==
    IF svc.thrown
    THEN [thrown |-> TRUE, store |-> svc.store, writes |-> svc.writes,
          log |-> svc.log, clearCookie |-> FALSE]
    ELSE [thrown |-> FALSE, store |-> svc.store, writes |-> svc.writes,
          log |-> svc.log, clearCookie |-> TRUE,
          value |-> [message |-> "Logout realizado com sucesso"]]

\* logout(req, res): the bearer token of the header, the cookie's refresh
\* token; the service is called only when there is an access token
LogoutHandler(s, authHeader, cookie) ==
    LogoutReply(IF authHeader # NoToken
                THEN Logout(s, authHeader, cookie)
                ELSE [thrown |-> FALSE, store |-> s, writes |-> <<>>,
                      log |-> <<>>])

----------------------------------------------------------------------------
(* JwtAuthGuard *)

NoHeader == [type |-> "", token |-> NoToken]
NoUser == [userId |-> <<>>]

\* extractTokenFromHeader(request): the word after 'Bearer', if any
ExtractTokenFromHeader(authHeader) ==
    IF authHeader = NoHeader
    THEN NoToken
    ELSE IF authHeader.type = "Bearer" THEN authHeader.token ELSE NoToken

\* validateToken attaching the role claim as it is
ValidateToken_NoDefaultRole(s, token) ==
    LET payload == VerifyAccessToken(s, token)
    IN  IF payload.thrown
        THEN [thrown |-> TRUE,
              error |-> Unauthorized("Token invalido ou expirado"),
              user |-> NoUser]
        ELSE [thrown |-> FALSE, error |-> NoError,
              user |-> [userId |-> payload.payload.sub,
                        email |-> payload.payload.email,
                        role |-> payload.payload.role,
                        jti |-> payload.payload.jti]]

\* validateToken(token, request): request.user on success, one
\* UnauthorizedException for every failure of verifyAccessToken
ValidateToken(s, token) ==
    LET payload == VerifyAccessToken(s, token)
    IN  IF payload.thrown
        THEN [thrown |-> TRUE,
              error |-> Unauthorized("Token invalido ou expirado"),
              user |-> NoUser]
        ELSE [thrown |-> FALSE, error |-> NoError,
              user |-> [userId |-> payload.payload.sub,
                        email |-> payload.payload.email,
                        role |-> IF payload.payload.role \in {NoRole, ""}
                                 THEN "user" ELSE payload.payload.role,
                        jti |-> payload.payload.jti]]

\* JwtAuthGuard.canActivate(context)
JwtAuthGuardCanActivate(s, isPublic, authHeader) ==
    IF isPublic
    THEN [thrown |-> FALSE, error |-> NoError, user |-> NoUser]
    ELSE LET token == ExtractTokenFromHeader(authHeader)
         IN  IF token = NoToken
             THEN [thrown |-> TRUE,
                   error |-> Unauthorized("Token nao fornecido"),
                   user |-> NoUser]
             ELSE ValidateToken(s, token)

----------------------------------------------------------------------------
(* RolesGuard *)

\* reflector.getAllAndOverride(ROLES_KEY, ...) when no @Roles is declared
NoRequiredRoles == [defined |-> FALSE, roles |-> <<>>]

\* a message is the sequence of the parts of its template string
Forbidden(message) ==
    [type |-> "ForbiddenException", message |-> message]

\* requiredRoles.join(', ')
Join(roles, separator) ==
    [i \in 1..(IF Len(roles) = 0 THEN 0 ELSE 2 * Len(roles) - 1) |->
        IF i % 2 = 1 THEN roles[(i + 1) \div 2] ELSE separator]

\* canActivate looking only at the first required role
RolesGuardCanActivate_FirstRoleOnly(requiredRoles, user) ==
    IF ~requiredRoles.defined \/ Len(requiredRoles.roles) = 0
    THEN [thrown |-> FALSE, value |-> TRUE, error |-> NoError]
    ELSE IF user = NoUser
    THEN [thrown |-> TRUE, value |-> FALSE,
          error |-> Forbidden(<<"Usuario nao autenticado ou informacoes de usuario nao encontradas">>)]
    ELSE IF user.role \in {NoRole, ""}
    THEN [thrown |-> TRUE, value |-> FALSE,
          error |-> Forbidden(<<"Usuario nao possui role definida. Acesso negado.">>)]
    ELSE IF requiredRoles.roles[1] # user.role
    THEN [thrown |-> TRUE, value |-> FALSE,
          error |-> Forbidden(<<"Acesso negado. Role requerida: ",
                                Join(requiredRoles.roles, ", "),
                                ". Role do usuario: ", user.role>>)]
    ELSE [thrown |-> FALSE, value |-> TRUE, error |-> NoError]

\* RolesGuard.canActivate(context): requiredRoles is the metadata of the
\* route, user is request.user
RolesGuardCanActivate(requiredRoles, user) ==
    IF ~requiredRoles.defined \/ Len(requiredRoles.roles) = 0
    THEN [thrown |-> FALSE, value |-> TRUE, error |-> NoError]
    ELSE IF user = NoUser
    THEN [thrown |-> TRUE, value |-> FALSE,
          error |-> Forbidden(<<"Usuario nao autenticado ou informacoes de usuario nao encontradas">>)]
    ELSE LET userRole == user.role
         IN  IF userRole \in {NoRole, ""}
             THEN [thrown |-> TRUE, value |-> FALSE,
                   error |-> Forbidden(<<"Usuario nao possui role definida. Acesso negado.">>)]
             ELSE LET hasRole == \E i \in 1..Len(requiredRoles.roles) :
                                     requiredRoles.roles[i] = userRole
                  IN  IF ~hasRole
                      THEN [thrown |-> TRUE, value |-> FALSE,
                            error |-> Forbidden(
                                <<"Acesso negado. Role requerida: ",
                                  Join(requiredRoles.roles, ", "),
                                  ". Role do usuario: ", userRole>>)]
                      ELSE [thrown |-> FALSE, value |-> TRUE,
                            error |-> NoError]

----------------------------------------------------------------------------
(* Inputs *)

\* tokens signed outside generateTokens, as the unit tests sign them
Claims(sub, email, role, jti, iat, hasExp, exp) ==
    [sub |-> sub, email |-> email, role |-> role, jti |-> jti,
     iat |-> iat, hasExp |-> hasExp, exp |-> exp]

\* 'invalid-token': not a JWT at all
InvalidToken ==
    [sig |-> "malformed",
     claims |-> Claims(<<>>, "", NoRole, NoJti, 0, FALSE, 0)]
\* signed with another secret and already expired ('-1s')
ForgedToken ==
    [sig |-> "test-secret",
     claims |-> Claims(<<"user", 123>>, "test@example.com", NoRole, NoJti,
                       StartTime, TRUE, StartTime - 1)]
\* correctly signed access token without jti
TokenWithoutJti ==
    [sig |-> AccessTokenSecret,
     claims |-> Claims(<<"user", 123>>, "test@example.com", NoRole, NoJti,
                       StartTime, TRUE,
                       StartTime + LifetimeSeconds(AccessTokenExpiresIn))]
\* correctly signed access token without exp
TokenWithoutExp ==
    [sig |-> AccessTokenSecret,
     claims |-> Claims(<<"user", 123>>, "test@example.com", NoRole,
                       <<"ext", "access">>, StartTime, FALSE, 0)]
\* correctly signed refresh token that carries a role claim
RefreshTokenWithRole ==
    [sig |-> RefreshTokenSecret,
     claims |-> Claims(<<"user", 123>>, "test@example.com", "admin",
                       <<"ext", "refresh">>, StartTime, TRUE,
                       StartTime + LifetimeSeconds(RefreshTokenExpiresIn))]

Crafted ==
    {InvalidToken, ForgedToken, TokenWithoutJti, TokenWithoutExp,
     RefreshTokenWithRole}

\* tokens handed out by the service so far
IssuedTokens ==
    {p.accessToken : p \in issued} \cup {p.refreshToken : p \in issued}
        \cup {p.accessToken : p \in refreshed}

\* every token a caller may present
Tokens == IssuedTokens \cup Crafted

KnownJtis == {t.claims.jti : t \in Tokens} \ {NoJti}

\* expiry arguments a caller may pass to blacklistToken
ExpiryArgs(jti) ==
    {t.claims.exp : t \in {x \in Tokens : x.claims.hasExp /\ x.claims.jti = jti}}
        \cup {now - 3600}

\* what the Authorization header may hold
HeaderTokens ==
    {t \in Tokens : t.sig = AccessTokenSecret}
        \cup {InvalidToken, NoToken}

\* what the refreshToken cookie may hold
CookieTokens ==
    {t \in Tokens : t.sig = RefreshTokenSecret} \cup {InvalidToken, NoToken}

\* (userId, email) arguments of a direct generateTokens call
Subjects ==
    {[id |-> <<"user", 123>>, email |-> "test@example.com"]}
        \cup {[id |-> u.id, email |-> u.email] : u \in users}

Roles == {NoRole, "admin"}
Emails == {"alice@x.com"}
\* emails a login may name: registered ones and one nobody registers
LoginEmails == Emails \cup {"nobody@x.com"}
Passwords == {"password1234", "wrongpass"}
RegisterPasswords == {"password1234"}
\* plaintext passwords handed to PasswordService
PlainPasswords == {"", "senha123", "senha456", "password1234", "wrongpass"}
\* values of randomBytes(saltLen)
Salts ==
    {[i \in 1..SaltLen |-> 0], [i \in 1..SaltLen |-> 255],
     [i \in 1..SaltLen |-> (7 * i) % 256],
     [i \in 1..SaltLen |-> (251 * i + 13) % 256]}
RegisterSalts == {[i \in 1..SaltLen |-> (7 * i) % 256]}

\* str with the character c put in after its k-th character
InsertAt(str, k, c) ==
    SubSeq(str, 1, k) \o <<c>> \o SubSeq(str, k + 1, Len(str))

\* stored hashes that are not of the form base64(salt):base64(key): the
\* empty string, no ':', no salt, no key, parts with characters outside the
\* alphabet (short ones, and a hash of hashPassword with such a character
\* put into its salt part or its key part)
MalformedHashes ==
    {<<>>, <<7, 8, 9>>, <<Colon, 7, 8>>, <<7, 8, Colon>>,
     <<Space, 1, Space, Colon, Space, 2>>,
     <<13, 14, Space, 15, Colon, 16, Space, 17, 18>>}
        \cup {InsertAt(HashPassword("senha123", salt), k, Space) :
                  salt \in Salts, k \in {3, 50}}

\* what the Authorization header of a request may hold
Headers ==
    {NoHeader, [type |-> "Bearer", token |-> NoToken],
     [type |-> "Basic", token |-> InvalidToken]}
        \cup {[type |-> "Bearer", token |-> t] : t \in Tokens}

\* role names a route may require or a request.user may carry
RoleNames == {"user", "admin", "manager", "guest"}

\* sequences of at most n role names
RoleLists(n) ==
    UNION {[1..k -> RoleNames] : k \in 0..n}

\* what the @Roles metadata of a route may be
RequiredRoleSets ==
    {NoRequiredRoles}
        \cup {[defined |-> TRUE, roles |-> q] :
                 q \in RoleLists(MaxRequiredRoles)}

\* what request.user may be when RolesGuard runs
Identities ==
    {NoUser}
        \cup {[userId |-> <<"user", 123>>, email |-> "test@example.com",
               role |-> r, jti |-> NoJti] :
                 r \in RoleNames \cup {NoRole, ""}}

\* emails of register calls that run at the same time
ConcurrentEmails == {"alice@x.com", "bob@x.com"}

\* the register calls the framework may run at the same time
Procs == 1..MaxProcs
Clients == 1..MaxClients
\* the clients of the specification that interleaves the requests of
\* different clients: one more, so that a request always has another one to
\* interleave with
ConcurrentClients == 1..(MaxClients + 1)
\* a register call that has not started or has returned
Idle == [pc |-> "idle"]

NoCall == [op |-> "none"]

----------------------------------------------------------------------------
(* State machine *)

Init ==
    /\ now = StartTime
    /\ redisUp = TRUE
    /\ store = [k \in {} |-> 0]
    /\ users = {}
    /\ issued = {}
    /\ refreshed = {}
    /\ uuidCount = 0
    /\ res = NoCall
    /\ registering = [p \in Procs |-> Idle]
    /\ prisma = [user |-> {}, bankingDetails |-> {}]
    /\ rabbit = [connection |-> FALSE, channel |-> FALSE, open |-> FALSE,
                 exchange |-> <<>>, consuming |-> FALSE,
                 messages |-> <<>>, started |-> FALSE,
                 reconnectAttempts |-> 0,
                 reconnectDelay |-> InitialReconnectDelay,
                 timers |-> 0, settingUp |-> 0, handling |-> 0, handlingInConnect |-> 0,
                 live |-> 0, closing |-> 0]
    /\ requests = [c \in ConcurrentClients |-> Idle]

\* the clock advances; Redis drops the keys whose TTL ran out
Tick ==
    \E t \in TimePoints :
        /\ res = NoCall
        /\ UNCHANGED <<registering, usersVars>>
        /\ t > now
        /\ now' = t
        /\ store' = Unexpired(store, t)
        /\ res' = NoCall
        /\ UNCHANGED <<redisUp, users, issued, refreshed, uuidCount>>

\* the Redis client starts failing its commands (maxRetriesPerRequest)
RedisFail ==
    /\ res = NoCall
    /\ UNCHANGED <<registering, usersVars>>
    /\ redisUp
    /\ redisUp' = FALSE
    /\ res' = NoCall
    /\ UNCHANGED <<now, store, users, issued, refreshed, uuidCount>>

RedisRecover ==
    /\ res = NoCall
    /\ UNCHANGED <<registering, usersVars>>
    /\ ~redisUp
    /\ redisUp' = TRUE
    /\ res' = NoCall
    /\ UNCHANGED <<now, store, users, issued, refreshed, uuidCount>>

GenerateTokensCall ==
    /\ res = NoCall
    /\ UNCHANGED <<registering, usersVars>>
    /\ \E user \in Subjects, role \in Roles :
        /\ uuidCount < MaxUuid
        /\ LET tokens == GenerateTokens(user.id, user.email,
                                        RandomUUID(uuidCount + 1))
           IN  res' = [op |-> "generateTokens",
                       args |-> [userId |-> user.id, email |-> user.email,
                                 role |-> role],
                       thrown |-> FALSE, value |-> tokens]
        /\ uuidCount' = uuidCount + 1
        /\ UNCHANGED <<now, redisUp, store, users, issued, refreshed>>

VerifyAccessTokenCall ==
    /\ res = NoCall
    /\ UNCHANGED <<registering, usersVars>>
    /\ \E token \in Tokens :
        /\ res' = [op |-> "verifyAccessToken", token |-> token,
                   result |-> VerifyAccessToken(store, token)]
        /\ UNCHANGED <<now, redisUp, store, users, issued, refreshed,
                       uuidCount>>

VerifyRefreshTokenCall ==
    /\ res = NoCall
    /\ UNCHANGED <<registering, usersVars>>
    /\ \E token \in Tokens :
        /\ res' = [op |-> "verifyRefreshToken", token |-> token,
                   result |-> VerifyRefreshToken(store, token)]
        /\ UNCHANGED <<now, redisUp, store, users, issued, refreshed,
                       uuidCount>>

IsTokenBlacklistedCall ==
    /\ res = NoCall
    /\ UNCHANGED <<registering, usersVars>>
    /\ \E jti \in KnownJtis \cup {NoJti} :
        /\ res' = [op |-> "isTokenBlacklisted", jti |-> jti,
                   result |-> IsTokenBlacklisted(store, jti)]
        /\ UNCHANGED <<now, redisUp, store, users, issued, refreshed,
                       uuidCount>>

BlacklistTokenCall ==
    /\ res = NoCall
    /\ UNCHANGED <<registering, usersVars>>
    /\ \E jti \in KnownJtis : \E expiresIn \in ExpiryArgs(jti) :
        LET b == BlacklistToken(store, jti, expiresIn)
        IN  /\ store' = b.store
            /\ res' = [op |-> "blacklistToken", jti |-> jti,
                       expiresIn |-> expiresIn, thrown |-> b.thrown,
                       writes |-> b.writes]
            /\ UNCHANGED <<now, redisUp, users, issued, refreshed,
                           uuidCount>>

RefreshAccessTokenCall ==
    /\ res = NoCall
    /\ UNCHANGED <<registering, usersVars>>
    /\ \E token \in Tokens :
        /\ uuidCount < MaxUuid
        /\ LET r == RefreshAccessToken(store, token,
                                       RandomUUID(uuidCount + 1))
           IN  /\ res' = [op |-> "refreshAccessToken", token |-> token,
                          result |-> r]
               /\ IF r.thrown
                  THEN UNCHANGED <<refreshed, uuidCount>>
                  ELSE /\ refreshed' = refreshed \cup
                              {[refreshToken |-> token,
                                accessToken |-> r.token]}
                       /\ uuidCount' = uuidCount + 1
        /\ UNCHANGED <<now, redisUp, store, users, issued>>

RegisterCall ==
    /\ res = NoCall
    /\ UNCHANGED <<registering, usersVars>>
    /\ \E email \in Emails, password \in RegisterPasswords,
          salt \in RegisterSalts :
        /\ Cardinality(users) < MaxUsers \/ FindByEmail(email) # {}
        /\ LET r == Register([name |-> "Alice", email |-> email,
                              password |-> password], salt)
           IN  /\ users' = r.users
               /\ res' = [op |-> "register", email |-> email,
                          password |-> password, result |-> r]
        /\ UNCHANGED <<now, redisUp, store, issued, refreshed, uuidCount>>

LoginCall ==
    /\ res = NoCall
    /\ UNCHANGED <<registering, usersVars>>
    /\ \E email \in LoginEmails, password \in Passwords :
        /\ uuidCount < MaxUuid
        /\ LET r == Login([email |-> email, password |-> password],
                          RandomUUID(uuidCount + 1))
           IN  /\ res' = [op |-> "login", email |-> email, result |-> r]
               /\ IF r.thrown
                  THEN UNCHANGED <<issued, uuidCount>>
                  ELSE /\ issued' = issued \cup {r.tokens}
                       /\ uuidCount' = uuidCount + 1
        /\ UNCHANGED <<now, redisUp, store, users, refreshed>>

LogoutCall ==
    /\ res = NoCall
    /\ UNCHANGED <<registering, usersVars>>
    /\ \E accessToken \in HeaderTokens,
       refreshToken \in CookieTokens :
        LET r == LogoutHandler(store, accessToken, refreshToken)
        IN  /\ store' = r.store
            /\ res' = [op |-> "logout", accessToken |-> accessToken,
                       refreshToken |-> refreshToken, result |-> r]
            /\ UNCHANGED <<now, redisUp, users, issued, refreshed,
                           uuidCount>>

\* a request reaches a route behind the global JwtAuthGuard
JwtAuthGuardCall ==
    /\ res = NoCall
    /\ UNCHANGED <<registering, usersVars>>
    /\ \E isPublic \in BOOLEAN, authHeader \in Headers :
        /\ res' = [op |-> "jwtAuthGuard", isPublic |-> isPublic,
                   authHeader |-> authHeader,
                   result |-> JwtAuthGuardCanActivate(store, isPublic,
                                                      authHeader)]
        /\ UNCHANGED <<now, redisUp, store, users, issued, refreshed,
                       uuidCount>>

\* the caller takes the result of the call
Respond ==
    /\ res # NoCall
    /\ res' = NoCall
    /\ UNCHANGED <<registering, usersVars>>
    /\ UNCHANGED <<now, redisUp, store, users, issued, refreshed, uuidCount>>

Next ==
    \/ Tick
    \/ RedisFail
    \/ RedisRecover
    \/ GenerateTokensCall
    \/ VerifyAccessTokenCall
    \/ VerifyRefreshTokenCall
    \/ IsTokenBlacklistedCall
    \/ BlacklistTokenCall
    \/ RefreshAccessTokenCall
    \/ RegisterCall
    \/ LoginCall
    \/ LogoutCall
    \/ JwtAuthGuardCall
    \/ Respond

Spec == Init /\ [][Next]_vars

----------------------------------------------------------------------------
(* PasswordService on its own: a password is hashed, then a password is
   verified against that hash *)

HashPasswordCall ==
    /\ res = NoCall
    /\ UNCHANGED <<registering, usersVars>>
    /\ \E password \in PlainPasswords, salt \in Salts :
        res' = [op |-> "hashPassword", password |-> password,
                salt |-> salt, value |-> HashPassword(password, salt)]
    /\ UNCHANGED <<now, redisUp, store, users, issued, refreshed, uuidCount>>

VerifyPasswordCall ==
    /\ res.op = "hashPassword"
    /\ UNCHANGED <<registering, usersVars>>
    /\ \E password \in PlainPasswords :
        res' = [op |-> "verifyPassword", password |-> password,
                hashedPassword |-> res.value,
                hashedFrom |-> [password |-> res.password,
                                salt |-> res.salt],
                value |-> VerifyPassword(password, res.value)]
    /\ UNCHANGED <<now, redisUp, store, users, issued, refreshed, uuidCount>>

\* verifyPassword against a stored hash that hashPassword did not write
VerifyStoredHashCall ==
    /\ res = NoCall
    /\ UNCHANGED <<registering, usersVars>>
    /\ \E password \in PlainPasswords, hashedPassword \in MalformedHashes :
        res' = [op |-> "verifyStoredHash", password |-> password,
                hashedPassword |-> hashedPassword,
                value |-> VerifyPassword(password, hashedPassword)]
    /\ UNCHANGED <<now, redisUp, store, users, issued, refreshed, uuidCount>>

PasswordNext ==
    \/ HashPasswordCall
    \/ VerifyPasswordCall
    \/ VerifyStoredHashCall
    \/ Respond

PasswordSpec == Init /\ [][PasswordNext]_vars

----------------------------------------------------------------------------
(* RolesGuard on its own: the gate decides for a route's metadata and a
   request's identity *)

RolesGuardCall ==
    /\ res = NoCall
    /\ UNCHANGED <<registering, usersVars>>
    /\ \E requiredRoles \in RequiredRoleSets, user \in Identities :
        res' = [op |-> "rolesGuard", requiredRoles |-> requiredRoles,
                user |-> user,
                result |-> RolesGuardCanActivate(requiredRoles, user)]
    /\ UNCHANGED <<now, redisUp, store, users, issued, refreshed, uuidCount>>

GateNext ==
    \/ RolesGuardCall
    \/ Respond

GateSpec == Init /\ [][GateNext]_vars

----------------------------------------------------------------------------
(* AuthService.register step by step: each await of the method is a point
   where another register call may run *)

\* await this.prisma.user.findUnique(...), then the conflict check
RegisterFindUnique(p) ==
    /\ UNCHANGED usersVars
    /\ registering[p].pc = "idle"
    /\ \E email \in ConcurrentEmails, password \in RegisterPasswords :
        LET registerDto == [name |-> "Alice", email |-> email,
                            password |-> password]
            existingUser == FindByEmail(email)
        IN  registering' =
                [registering EXCEPT ![p] =
                    IF existingUser # {}
                    THEN [pc |-> "done", registerDto |-> registerDto,
                          thrown |-> TRUE,
                          error |-> [type |-> "ConflictException",
                                     message |-> "Email ja esta em uso"]]
                    ELSE [pc |-> "hashPassword",
                          registerDto |-> registerDto]]
    /\ UNCHANGED <<now, redisUp, store, users, issued, refreshed, uuidCount,
                   res>>

\* await this.passwordService.hashPassword(registerDto.password)
RegisterHashPassword(p) ==
    /\ UNCHANGED usersVars
    /\ registering[p].pc = "hashPassword"
    /\ \E salt \in RegisterSalts :
        registering' =
            [registering EXCEPT ![p] =
                [pc |-> "create", registerDto |-> @.registerDto,
                 passwordHash |-> HashPassword(@.registerDto.password, salt)]]
    /\ UNCHANGED <<now, redisUp, store, users, issued, refreshed, uuidCount,
                   res>>

\* await this.prisma.user.create(...): its error is not caught by register
RegisterCreate(p) ==
    /\ UNCHANGED usersVars
    /\ registering[p].pc = "create"
    /\ LET c == PrismaUserCreate(users,
                    [name |-> registering[p].registerDto.name,
                     email |-> registering[p].registerDto.email,
                     passwordHash |-> registering[p].passwordHash])
       IN  /\ users' = c.users
           /\ registering' =
                  [registering EXCEPT ![p] =
                      IF c.thrown
                      THEN [pc |-> "done", registerDto |-> @.registerDto,
                            thrown |-> TRUE, error |-> c.error]
                      ELSE [pc |-> "done", registerDto |-> @.registerDto,
                            thrown |-> FALSE, error |-> NoError,
                            value |-> [message |-> "Usuario criado com sucesso",
                                       user |-> c.user]]]
    /\ UNCHANGED <<now, redisUp, store, issued, refreshed, uuidCount, res>>

\* the call returns to its caller
RegisterReturn(p) ==
    /\ UNCHANGED usersVars
    /\ registering[p].pc = "done"
    /\ registering' = [registering EXCEPT ![p] = Idle]
    /\ UNCHANGED <<now, redisUp, store, users, issued, refreshed, uuidCount,
                   res>>

RegisterNext ==
    \E p \in Procs :
        \/ RegisterFindUnique(p)
        \/ RegisterHashPassword(p)
        \/ RegisterCreate(p)
        \/ RegisterReturn(p)

RegisterSpec == Init /\ [][RegisterNext]_vars

----------------------------------------------------------------------------
(* Users endpoints: the cache, the database and the broker as
   UsersController, UsersService and EventPublisherService use them *)

\* CACHE_TTL: REDIS_CACHE_TTL or '3600' seconds
CacheTtl == 3600

\* undefined (a field the body does not have) and null (SQL NULL) of a text
Undefined == "undefined"
Null == "null"
\* null where a row or an object is expected
NoRow == [row |-> "none"]
\* an id no request carries: the empty string
NoId == <<>>

\* a Date and its toISOString() / JSON form
Date(t) == <<"date", t>>
ToISOString(d) == <<"iso", d[2]>>

\* `user:${id}`
CacheKey(id) == <<"user:", id>>

\* what redis.get answers for a key that does not exist
NoValue == [kind |-> "null", body |-> <<>>]

\* RedisService.get(key)
RedisGet(s, key) ==
    IF ~redisUp
    THEN [thrown |-> TRUE, value |-> NoValue]
    ELSE [thrown |-> FALSE,
          value |-> IF key \in DOMAIN s THEN s[key].value ELSE NoValue]

\* RedisService.del(key)
RedisDel(s, key) ==
    IF ~redisUp
    THEN [thrown |-> TRUE, store |-> s]
    ELSE [thrown |-> FALSE, store |-> [k \in DOMAIN s \ {key} |-> s[k]]]

\* JSON.stringify(user): Date fields become ISO strings
JsonStringify(user) ==
    [kind |-> "json",
     body |-> [user EXCEPT
                  !.createdAt = ToISOString(@),
                  !.updatedAt = ToISOString(@),
                  !.bankingDetails =
                      IF @ = NoRow THEN NoRow
                      ELSE [@ EXCEPT !.updatedAt = ToISOString(@)]]]

\* JSON.parse(cached): throws on a text that is not JSON
JsonParse(cached) ==
    IF cached.kind = "json"
    THEN [thrown |-> FALSE, value |-> cached.body]
    ELSE [thrown |-> TRUE, value |-> NoRow]

NotFound(message) == [type |-> "NotFoundException", message |-> message]
BadRequest(message) == [type |-> "BadRequestException", message |-> message]
InternalServerError(message) ==
    [type |-> "InternalServerErrorException", message |-> message]
ForbiddenError(message) == [type |-> "ForbiddenException", message |-> message]
PlainError(message) == [type |-> "Error", message |-> message]

\* prisma.user.findUnique({ where: { id }, include: { bankingDetails } })
PrismaUserFindUnique(db, id) ==
    LET found == {u \in db.user : u.id = id}
    IN  IF found = {} THEN NoRow
        ELSE LET u == CHOOSE r \in found : TRUE
                 banking == {b \in db.bankingDetails : b.userId = id}
             IN  [id |-> u.id, name |-> u.name, email |-> u.email,
                  address |-> u.address, passwordHash |-> u.passwordHash,
                  profilePictureUrl |-> u.profilePictureUrl,
                  createdAt |-> u.createdAt, updatedAt |-> u.updatedAt,
                  bankingDetails |-> IF banking = {} THEN NoRow
                                     ELSE CHOOSE b \in banking : TRUE]

\* the value of a column after an update whose data may leave it out
Merge(old, new) == IF new = Undefined THEN old ELSE new

\* prisma.user.update({ where: { id }, data }): fails when no row has the
\* id and on the UNIQUE constraint of users.email
PrismaUserUpdate(db, id, data) ==
    IF ~\E u \in db.user : u.id = id
    THEN [thrown |-> TRUE, db |-> db]
    ELSE IF data.email # Undefined
            /\ \E u \in db.user : u.id # id /\ u.email = data.email
    THEN [thrown |-> TRUE, db |-> db]
    ELSE [thrown |-> FALSE,
          db |-> [db EXCEPT !.user =
                     {IF u.id # id THEN u
                      ELSE [u EXCEPT
                               !.name = Merge(@, data.name),
                               !.email = Merge(@, data.email),
                               !.address = Merge(@, data.address),
                               !.profilePictureUrl =
                                   Merge(@, data.profilePictureUrl),
                               !.updatedAt = Date(now)] : u \in db.user}]]

\* prisma.bankingDetails.upsert({ where: { userId }, update, create })
PrismaBankingDetailsUpsert(db, userId, bankingDetails) ==
    IF ~\E u \in db.user : u.id = userId
    THEN [thrown |-> TRUE, db |-> db]
    ELSE [thrown |-> FALSE,
          db |-> [db EXCEPT !.bankingDetails =
                     {b \in @ : b.userId # userId}
                         \cup {[userId |-> userId,
                                agency |-> bankingDetails.agency,
                                accountNumber |-> bankingDetails.accountNumber,
                                updatedAt |-> Date(now)]}]]

\* prisma.user.create({ data }) of UsersService.create
PrismaUserInsert(db, data) ==
    IF \E u \in db.user : u.email = data.email
    THEN [thrown |-> TRUE, db |-> db]
    ELSE [thrown |-> FALSE,
          db |-> [db EXCEPT !.user =
                     @ \cup {[id |-> <<"user", Cardinality(db.user) + 1>>,
                              name |-> data.name, email |-> data.email,
                              address |-> data.address,
                              passwordHash |-> data.passwordHash,
                              profilePictureUrl |-> Null,
                              createdAt |-> Date(now),
                              updatedAt |-> Date(now)]}]]

\* RabbitMQService.isConnected()
IsConnected(rb) == rb.connection /\ rb.channel

\* RabbitMQService.publishEvent(routingKey, event): throws without a channel
\* and when channel.publish throws (the channel was closed under it)
PublishEvent(rb, routingKey, event) ==
    IF ~rb.channel
    THEN [thrown |-> TRUE,
          error |-> PlainError("Canal nao esta disponivel. RabbitMQ nao conectado."),
          rabbit |-> rb]
    ELSE IF ~rb.open
    THEN [thrown |-> TRUE, error |-> PlainError("Channel closed"),
          rabbit |-> rb]
    ELSE [thrown |-> FALSE, error |-> NoError,
          rabbit |-> [rb EXCEPT !.exchange =
                         Append(@, [routingKey |-> routingKey,
                                    message |-> event])]]

\* EventValidatorService.validateBankingDetailsUpdated(event): the event has
\* the fields of BankingDetailsUpdatedEvent and they are strings
ValidateBankingDetailsUpdated(event) ==
    /\ event.userId # NoId
    /\ event.bankingDetails.agency # Undefined
    /\ event.bankingDetails.account # Undefined

\* publishBankingDetailsUpdated that skips the schema validation
PublishBankingDetailsUpdated_NoValidation(rb, userId, bankingDetails) ==
    IF ~IsConnected(rb)
    THEN [thrown |-> FALSE, error |-> NoError, rabbit |-> rb,
          log |-> <<"warn: RabbitMQ nao conectado">>]
    ELSE LET event == [eventId |-> <<"event", Len(rb.exchange) + 1>>,
                       userId |-> userId, bankingDetails |-> bankingDetails,
                       timestamp |-> ToISOString(Date(now)),
                       source |-> "user-service"]
             p == PublishEvent(rb, "user.banking-details.updated", event)
         IN  [thrown |-> p.thrown, error |-> p.error, rabbit |-> p.rabbit,
              log |-> IF p.thrown THEN <<"error: Erro ao publicar evento">>
                      ELSE <<"log: Evento publicado">>]

\* publishBankingDetailsUpdated(userId, bankingDetails)
PublishBankingDetailsUpdated(rb, userId, bankingDetails) ==
    IF ~IsConnected(rb)
    THEN [thrown |-> FALSE, error |-> NoError, rabbit |-> rb,
          log |-> <<"warn: RabbitMQ nao conectado">>]
    ELSE LET event == [eventId |-> <<"event", Len(rb.exchange) + 1>>,
                       userId |-> userId, bankingDetails |-> bankingDetails,
                       timestamp |-> ToISOString(Date(now)),
                       source |-> "user-service"]
         IN  IF ~ValidateBankingDetailsUpdated(event)
             THEN [thrown |-> TRUE,
                   error |-> PlainError("Evento banking-details.updated invalido. Nao sera publicado."),
                   rabbit |-> rb, log |-> <<"error: Evento invalido">>]
             ELSE LET p == PublishEvent(rb, "user.banking-details.updated",
                                        event)
                  IN  [thrown |-> p.thrown, error |-> p.error,
                       rabbit |-> p.rabbit,
                       log |-> IF p.thrown
                               THEN <<"error: Erro ao publicar evento">>
                               ELSE <<"log: Evento publicado">>]

\* null where the body may carry an object
NullObject == [row |-> "null"]

\* truthiness of updateUserDto.bankingDetails
Truthy(obj) == obj # NoRow /\ obj # NullObject

\* a request as it reaches a handler of UsersController
NewRequest(route, id, currentUser, body) ==
    [pc |-> "start", route |-> route, id |-> id,
     currentUser |-> currentUser, body |-> body,
     invoked |-> FALSE, reads |-> 0, cached |-> NoValue,
     user |-> NoRow, bankingDetailsUpdated |-> FALSE, log |-> <<>>,
     thrown |-> FALSE, error |-> NoError, value |-> NoRow]

\* throw error / return value: the request is answered
Throw(r, error) == [r EXCEPT !.pc = "done", !.thrown = TRUE, !.error = error]
Return(r, value) == [r EXCEPT !.pc = "done", !.value = value]

\* UsersService.findOne up to its first await: the id check
FindOneBegin(r) ==
    IF r.id = NoId
    THEN Throw(r, NotFound("ID do usuario e obrigatorio"))
    ELSE [r EXCEPT !.pc = "findOne.get"]

\* updateUserDto has name, email or address
HasUserFields(dto) ==
    dto.name # Undefined \/ dto.email # Undefined \/ dto.address # Undefined

\* UsersService.update up to its first await: the id and the body checks
UpdateBegin(r) ==
    IF r.id = NoId
    THEN Throw(r, BadRequest("ID do usuario e obrigatorio"))
    ELSE IF ~HasUserFields(r.body) /\ r.body.bankingDetails = NoRow
    THEN Throw(r, BadRequest("Pelo menos um campo deve ser fornecido para atualizacao"))
    ELSE [r EXCEPT !.pc = "update.findUnique"]

\* UsersService.updateProfilePicture up to its first await
UpdateProfilePictureBegin(r) ==
    IF r.id = NoId
    THEN Throw(r, BadRequest("ID do usuario e obrigatorio"))
    ELSE IF r.body = ""
    THEN Throw(r, BadRequest("URL da foto de perfil e obrigatoria"))
    ELSE [r EXCEPT !.pc = "picture.findUnique"]

\* findOne of a controller that hands every request to the service
UsersControllerFindOne_NoOwnerCheck(r) ==
    FindOneBegin([r EXCEPT !.invoked = TRUE])

\* UsersController.findOne(params, currentUser)
UsersControllerFindOne(r) ==
    IF r.id # r.currentUser.userId
    THEN Throw(r, ForbiddenError("Voce nao tem permissao para acessar este recurso"))
    ELSE FindOneBegin([r EXCEPT !.invoked = TRUE])

\* UsersController.update(params, updateUserDto, currentUser)
UsersControllerUpdate(r) ==
    IF r.id # r.currentUser.userId
    THEN Throw(r, ForbiddenError("Voce nao tem permissao para atualizar este recurso"))
    ELSE UpdateBegin([r EXCEPT !.invoked = TRUE])

\* UsersController.updateProfilePicture(params, file, currentUser)
UsersControllerUpdateProfilePicture(r) ==
    IF r.id # r.currentUser.userId
    THEN Throw(r, ForbiddenError("Voce nao tem permissao para atualizar este recurso"))
    ELSE UpdateProfilePictureBegin([r EXCEPT !.invoked = TRUE])

\* where update goes after the user's own columns are written
AfterUserUpdate(r) ==
    IF Truthy(r.body.bankingDetails) THEN "update.upsert"
    ELSE "update.findUpdated"

\* ids a path may name: those of the rows, and one no row has
PathIds == {u.id : u \in prisma.user} \cup {<<"user", 99>>}

\* request.user as JwtAuthGuard attaches it
Callers ==
    {[userId |-> u.id, email |-> u.email] : u \in prisma.user}
        \cup {[userId |-> <<"user", 99>>, email |-> "gone@x.com"]}

\* bodies of PATCH /api/users/:id
UpdateDtos ==
    {[name |-> "Alice B", email |-> "bob@x.com", address |-> Undefined,
      bankingDetails |-> NoRow],
     [name |-> Undefined, email |-> Undefined, address |-> Undefined,
      bankingDetails |-> [agency |-> "1234", accountNumber |-> "12345678"]],
     [name |-> "Alice B", email |-> Undefined, address |-> Undefined,
      bankingDetails |-> [agency |-> "1234", accountNumber |-> "12345678"]],
     [name |-> Undefined, email |-> Undefined, address |-> Undefined,
      bankingDetails |-> NullObject],
     [name |-> Undefined, email |-> Undefined, address |-> Undefined,
      bankingDetails |-> NoRow]}

\* the url UsersController builds for an uploaded file
ProfilePictureUrls == {"/uploads/profile-pictures/1-1700000000.jpg"}

\* arguments of a direct publishBankingDetailsUpdated call
PublishArgs ==
    {[userId |-> <<"user", 1>>,
      bankingDetails |-> [agency |-> "1234", account |-> "12345678"]],
     [userId |-> <<"user", 1>>,
      bankingDetails |-> [agency |-> "1234", account |-> Undefined]]}

\* the n-th body of UsersService.create
CreateUserDto(n) ==
    [name |-> "Alice",
     email |-> IF n = 1 THEN "alice@x.com"
               ELSE IF n = 2 THEN "bob@x.com" ELSE "carol@x.com",
     address |-> Null, passwordHash |-> "password1234"]

\* update requests in progress that may still publish an event
Publishing ==
    {c \in Clients : /\ requests[c].pc \notin {"idle", "done"}
                     /\ requests[c].route = "update"
                     /\ Truthy(requests[c].body.bankingDetails)}

(* Users endpoints step by step: each await of a handler is a point where
   the store, the broker or another request may act *)

\* GET /api/users/:id reaches UsersController.findOne
FindOneRequest(c) ==
    /\ res = NoCall
    /\ requests[c] = Idle
    /\ \E id \in PathIds, currentUser \in Callers :
        requests' = [requests EXCEPT ![c] =
            UsersControllerFindOne(
                NewRequest("findOne", id, currentUser, NoRow))]
    /\ UNCHANGED <<now, redisUp, store, users, issued, refreshed, uuidCount,
                   res, registering, prisma, rabbit>>

\* await this.redis.get(cacheKey), then JSON.parse of what it answered; an
\* error of the get ends in the outer catch
FindOneGet(c) ==
    /\ requests[c].pc = "findOne.get"
    /\ LET r == requests[c]
           g == RedisGet(store, CacheKey(r.id))
           parsed == JsonParse(g.value)
       IN  requests' = [requests EXCEPT ![c] =
               IF g.thrown
               THEN Throw(r, InternalServerError("Erro ao buscar usuario. Tente novamente mais tarde."))
               ELSE IF g.value = NoValue
               THEN [r EXCEPT !.pc = "findOne.findUnique"]
               ELSE IF parsed.thrown
               THEN [r EXCEPT !.pc = "findOne.findUnique",
                              !.cached = g.value,
                              !.log = Append(@, "warn: Erro ao fazer parse do cache")]
               ELSE Return([r EXCEPT !.cached = g.value], parsed.value)]
    /\ UNCHANGED <<now, redisUp, store, users, issued, refreshed, uuidCount,
                   res, registering, prisma, rabbit>>

\* await this.prisma.user.findUnique(...), then the not-found check
FindOneFindUnique(c) ==
    /\ requests[c].pc = "findOne.findUnique"
    /\ LET r == requests[c]
           user == PrismaUserFindUnique(prisma, r.id)
       IN  requests' = [requests EXCEPT ![c] =
               IF user = NoRow
               THEN Throw([r EXCEPT !.reads = @ + 1],
                          NotFound("Usuario nao encontrado"))
               ELSE [r EXCEPT !.pc = "findOne.set", !.reads = @ + 1,
                              !.user = user]]
    /\ UNCHANGED <<now, redisUp, store, users, issued, refreshed, uuidCount,
                   res, registering, prisma, rabbit>>

\* findOne whose cache write is not wrapped in a try block
FindOneSet_Uncaught(c) ==
    /\ requests[c].pc = "findOne.set"
    /\ LET r == requests[c]
           w == RedisSet(store, CacheKey(r.id), JsonStringify(r.user),
                         CacheTtl)
       IN  /\ store' = w.store
           /\ requests' = [requests EXCEPT ![c] =
                  IF w.thrown
                  THEN Throw(r, InternalServerError("Erro ao buscar usuario. Tente novamente mais tarde."))
                  ELSE Return(r, r.user)]
    /\ UNCHANGED <<now, redisUp, users, issued, refreshed, uuidCount,
                   res, registering, prisma, rabbit>>

\* findOne that stores the user without a time to live
FindOneSet_NoTtl(c) ==
    /\ requests[c].pc = "findOne.set"
    /\ LET r == requests[c]
           w == RedisSet(store, CacheKey(r.id), JsonStringify(r.user), 0)
       IN  /\ store' = w.store
           /\ requests' = [requests EXCEPT ![c] = Return(r, r.user)]
    /\ UNCHANGED <<now, redisUp, users, issued, refreshed, uuidCount,
                   res, registering, prisma, rabbit>>

\* await this.redis.set(cacheKey, JSON.stringify(user), CACHE_TTL) inside
\* its own try block, then return user
FindOneSet(c) ==
    /\ requests[c].pc = "findOne.set"
    /\ LET r == requests[c]
           w == RedisSet(store, CacheKey(r.id), JsonStringify(r.user),
                         CacheTtl)
       IN  /\ store' = w.store
           /\ requests' = [requests EXCEPT ![c] =
                  IF w.thrown
                  THEN Return([r EXCEPT !.log =
                                  Append(@, "warn: Erro ao armazenar no cache")],
                              r.user)
                  ELSE Return(r, r.user)]
    /\ UNCHANGED <<now, redisUp, users, issued, refreshed, uuidCount,
                   res, registering, prisma, rabbit>>

\* PATCH /api/users/:id reaches UsersController.update
UpdateRequest(c) ==
    /\ res = NoCall
    /\ requests[c] = Idle
    /\ \E id \in PathIds, currentUser \in Callers, dto \in UpdateDtos :
        /\ Truthy(dto.bankingDetails) =>
               Len(rabbit.exchange) + Cardinality(Publishing) < MaxEvents
        /\ requests' = [requests EXCEPT ![c] =
               UsersControllerUpdate(
                   NewRequest("update", id, currentUser, dto))]
    /\ UNCHANGED <<now, redisUp, store, users, issued, refreshed, uuidCount,
                   res, registering, prisma, rabbit>>

\* await this.prisma.user.findUnique(...): does the user exist
UpdateFindUnique(c) ==
    /\ requests[c].pc = "update.findUnique"
    /\ LET r == requests[c]
           existingUser == PrismaUserFindUnique(prisma, r.id)
       IN  requests' = [requests EXCEPT ![c] =
               IF existingUser = NoRow
               THEN Throw([r EXCEPT !.reads = @ + 1],
                          NotFound("Usuario nao encontrado"))
               ELSE [r EXCEPT !.reads = @ + 1,
                              !.pc = IF HasUserFields(r.body)
                                     THEN "update.user"
                                     ELSE AfterUserUpdate(r)]]
    /\ UNCHANGED <<now, redisUp, store, users, issued, refreshed, uuidCount,
                   res, registering, prisma, rabbit>>

\* await this.prisma.user.update(...); its error ends in the outer catch
UpdateUser(c) ==
    /\ requests[c].pc = "update.user"
    /\ LET r == requests[c]
           u == PrismaUserUpdate(prisma, r.id,
                    [name |-> r.body.name, email |-> r.body.email,
                     address |-> r.body.address,
                     profilePictureUrl |-> Undefined])
       IN  /\ prisma' = u.db
           /\ requests' = [requests EXCEPT ![c] =
                  IF u.thrown
                  THEN Throw(r, InternalServerError("Erro ao atualizar usuario. Tente novamente mais tarde."))
                  ELSE [r EXCEPT !.pc = AfterUserUpdate(r)]]
    /\ UNCHANGED <<now, redisUp, store, users, issued, refreshed, uuidCount,
                   res, registering, rabbit>>

\* await this.prisma.bankingDetails.upsert(...)
UpdateUpsert(c) ==
    /\ requests[c].pc = "update.upsert"
    /\ LET r == requests[c]
           u == PrismaBankingDetailsUpsert(prisma, r.id,
                                           r.body.bankingDetails)
       IN  /\ prisma' = u.db
           /\ requests' = [requests EXCEPT ![c] =
                  IF u.thrown
                  THEN Throw(r, InternalServerError("Erro ao atualizar usuario. Tente novamente mais tarde."))
                  ELSE [r EXCEPT !.pc = "update.publish",
                                 !.bankingDetailsUpdated = TRUE]]
    /\ UNCHANGED <<now, redisUp, store, users, issued, refreshed, uuidCount,
                   res, registering, rabbit>>

\* update whose event publication is not wrapped in a try block
UpdatePublish_Uncaught(c) ==
    /\ requests[c].pc = "update.publish"
    /\ LET r == requests[c]
           p == PublishBankingDetailsUpdated(rabbit, r.id,
                    [agency |-> r.body.bankingDetails.agency,
                     account |-> r.body.bankingDetails.accountNumber])
       IN  /\ rabbit' = p.rabbit
           /\ requests' = [requests EXCEPT ![c] =
                  IF p.thrown
                  THEN Throw(r, InternalServerError("Erro ao atualizar usuario. Tente novamente mais tarde."))
                  ELSE [r EXCEPT !.pc = "update.findUpdated",
                                 !.log = @ \o p.log]]
    /\ UNCHANGED <<now, redisUp, store, users, issued, refreshed, uuidCount,
                   res, registering, prisma>>

\* await this.eventPublisher.publishBankingDetailsUpdated(...) inside its
\* own try block
UpdatePublish(c) ==
    /\ requests[c].pc = "update.publish"
    /\ LET r == requests[c]
           p == PublishBankingDetailsUpdated(rabbit, r.id,
                    [agency |-> r.body.bankingDetails.agency,
                     account |-> r.body.bankingDetails.accountNumber])
       IN  /\ rabbit' = p.rabbit
           /\ requests' = [requests EXCEPT ![c] =
                  [r EXCEPT !.pc = "update.findUpdated",
                            !.log = @ \o p.log]]
    /\ UNCHANGED <<now, redisUp, store, users, issued, refreshed, uuidCount,
                   res, registering, prisma>>

\* await this.prisma.user.findUnique(...): the user as updated
UpdateFindUpdated(c) ==
    /\ requests[c].pc = "update.findUpdated"
    /\ LET r == requests[c]
           userWithBanking == PrismaUserFindUnique(prisma, r.id)
       IN  requests' = [requests EXCEPT ![c] =
               [r EXCEPT !.pc = "update.del", !.reads = @ + 1,
                         !.user = userWithBanking]]
    /\ UNCHANGED <<now, redisUp, store, users, issued, refreshed, uuidCount,
                   res, registering, prisma, rabbit>>

\* update that leaves the cache entry in place
UpdateDel_NoInvalidation(c) ==
    /\ requests[c].pc = "update.del"
    /\ requests' = [requests EXCEPT ![c] = Return(@, @.user)]
    /\ UNCHANGED <<now, redisUp, store, users, issued, refreshed, uuidCount,
                   res, registering, prisma, rabbit>>

\* await this.redis.del(`user:${id}`) inside its own try block, then return
UpdateDel(c) ==
    /\ requests[c].pc = "update.del"
    /\ LET r == requests[c]
           d == RedisDel(store, CacheKey(r.id))
       IN  /\ store' = d.store
           /\ requests' = [requests EXCEPT ![c] =
                  IF d.thrown
                  THEN Return([r EXCEPT !.log =
                                  Append(@, "warn: Erro ao invalidar cache")],
                              r.user)
                  ELSE Return(r, r.user)]
    /\ UNCHANGED <<now, redisUp, users, issued, refreshed, uuidCount,
                   res, registering, prisma, rabbit>>

\* PATCH /api/users/:id/profile-picture reaches the controller
UpdateProfilePictureRequest(c) ==
    /\ res = NoCall
    /\ requests[c] = Idle
    /\ \E id \in PathIds, currentUser \in Callers,
          profilePictureUrl \in ProfilePictureUrls :
        requests' = [requests EXCEPT ![c] =
            UsersControllerUpdateProfilePicture(
                NewRequest("updateProfilePicture", id, currentUser,
                           profilePictureUrl))]
    /\ UNCHANGED <<now, redisUp, store, users, issued, refreshed, uuidCount,
                   res, registering, prisma, rabbit>>

\* updateProfilePicture: prisma.user.findUnique({ where: { id } })
PictureFindUnique(c) ==
    /\ requests[c].pc = "picture.findUnique"
    /\ LET r == requests[c]
           user == PrismaUserFindUnique(prisma, r.id)
       IN  requests' = [requests EXCEPT ![c] =
               IF user = NoRow
               THEN Throw([r EXCEPT !.reads = @ + 1],
                          NotFound("Usuario nao encontrado"))
               ELSE [r EXCEPT !.pc = "picture.update", !.reads = @ + 1]]
    /\ UNCHANGED <<now, redisUp, store, users, issued, refreshed, uuidCount,
                   res, registering, prisma, rabbit>>

\* updateProfilePicture: prisma.user.update({ data: { profilePictureUrl },
\* select: { id, profilePictureUrl } })
PictureUpdate(c) ==
    /\ requests[c].pc = "picture.update"
    /\ LET r == requests[c]
           u == PrismaUserUpdate(prisma, r.id,
                    [name |-> Undefined, email |-> Undefined,
                     address |-> Undefined, profilePictureUrl |-> r.body])
       IN  /\ prisma' = u.db
           /\ requests' = [requests EXCEPT ![c] =
                  IF u.thrown
                  THEN Throw(r, InternalServerError("Erro ao atualizar foto de perfil"))
                  ELSE [r EXCEPT !.pc = "picture.del",
                                 !.user = [id |-> r.id,
                                           profilePictureUrl |-> r.body]]]
    /\ UNCHANGED <<now, redisUp, store, users, issued, refreshed, uuidCount,
                   res, registering, rabbit>>

\* updateProfilePicture: redis.del(`user:${userId}`), its error tolerated
PictureDel(c) ==
    /\ requests[c].pc = "picture.del"
    /\ LET r == requests[c]
           d == RedisDel(store, CacheKey(r.id))
       IN  /\ store' = d.store
           /\ requests' = [requests EXCEPT ![c] = Return(r, r.user)]
    /\ UNCHANGED <<now, redisUp, users, issued, refreshed, uuidCount,
                   res, registering, prisma, rabbit>>

\* the answer leaves the service
RequestReturn(c) ==
    /\ requests[c].pc = "done"
    /\ requests' = [requests EXCEPT ![c] = Idle]
    /\ UNCHANGED <<now, redisUp, store, users, issued, refreshed, uuidCount,
                   res, registering, prisma, rabbit>>

\* UsersService.create(createUserDto): a row enters the users table
CreateUserCall ==
    /\ Cardinality(prisma.user) < MaxUsers
    /\ prisma' = PrismaUserInsert(prisma,
                     CreateUserDto(Cardinality(prisma.user) + 1)).db
    /\ UNCHANGED <<now, redisUp, store, users, issued, refreshed, uuidCount,
                   res, registering, rabbit, requests>>

\* another writer leaves a text that is not JSON under a user's cache key
CacheCorrupted ==
    /\ redisUp
    /\ \E u \in prisma.user :
        /\ CacheKey(u.id) \notin DOMAIN store
        /\ store' = Put(store, CacheKey(u.id),
                        [value |-> [kind |-> "text", body |-> <<>>],
                         hasTtl |-> FALSE, expireAt |-> 0])
    /\ UNCHANGED <<now, redisUp, users, issued, refreshed, uuidCount,
                   res, registering, prisma, rabbit, requests>>

\* RabbitMQService.connect(): the connection and its channel are there
RabbitConnect ==
    /\ ~rabbit.connection
    /\ rabbit' = [rabbit EXCEPT !.connection = TRUE, !.channel = TRUE,
                                !.open = TRUE]
    /\ UNCHANGED <<now, redisUp, store, users, issued, refreshed, uuidCount,
                   res, registering, prisma, requests>>

\* RabbitMQService.disconnect(): channel and connection are set to null
RabbitDisconnect ==
    /\ rabbit.connection
    /\ rabbit' = [rabbit EXCEPT !.connection = FALSE, !.channel = FALSE,
                                !.open = FALSE, !.consuming = FALSE]
    /\ UNCHANGED <<now, redisUp, store, users, issued, refreshed, uuidCount,
                   res, registering, prisma, requests>>

\* the broker closes the channel; the service still holds the object
ChannelClosed ==
    /\ rabbit.channel
    /\ rabbit.open
    /\ rabbit' = [rabbit EXCEPT !.open = FALSE, !.consuming = FALSE]
    /\ UNCHANGED <<now, redisUp, store, users, issued, refreshed, uuidCount,
                   res, registering, prisma, requests>>

\* publishBankingDetailsUpdated called on its own, no request in progress
PublishCall ==
    /\ res = NoCall
    /\ \A c \in Clients : requests[c] = Idle
    /\ Len(rabbit.exchange) + Cardinality(Publishing) < MaxEvents
    /\ \E a \in PublishArgs :
        LET p == PublishBankingDetailsUpdated(rabbit, a.userId,
                                              a.bankingDetails)
        IN  /\ rabbit' = p.rabbit
            /\ res' = [op |-> "publishBankingDetailsUpdated",
                       userId |-> a.userId,
                       bankingDetails |-> a.bankingDetails,
                       connected |-> IsConnected(rabbit),
                       result |-> p]
    /\ UNCHANGED <<now, redisUp, store, users, issued, refreshed, uuidCount,
                   registering, prisma, requests>>

UsersNext ==
    \/ \E c \in Clients :
           \/ FindOneRequest(c)
           \/ FindOneGet(c)
           \/ FindOneFindUnique(c)
           \/ FindOneSet(c)
           \/ UpdateRequest(c)
           \/ UpdateFindUnique(c)
           \/ UpdateUser(c)
           \/ UpdateUpsert(c)
           \/ UpdatePublish(c)
           \/ UpdateFindUpdated(c)
           \/ UpdateDel(c)
           \/ UpdateProfilePictureRequest(c)
           \/ PictureFindUnique(c)
           \/ PictureUpdate(c)
           \/ PictureDel(c)
           \/ RequestReturn(c)
    \/ CreateUserCall
    \/ CacheCorrupted
    \/ RabbitConnect
    \/ RabbitDisconnect
    \/ ChannelClosed
    \/ PublishCall
    \/ Respond
    \/ RedisFail
    \/ RedisRecover

UsersSpec == Init /\ [][UsersNext]_vars

(* AuthService.refresh step by step, next to a revocation *)

\* refresh(refreshDto) is called: the verifyAsync of verifyRefreshToken
RefreshVerify(c) ==
    /\ requests[c] = Idle
    /\ uuidCount < MaxUuid
    /\ \E token \in CookieTokens \ {NoToken} :
        LET v == VerifyAsync(token, RefreshTokenSecret)
            r == [pc |-> "refresh.exists", route |-> "refresh",
                  token |-> token, check |-> 1, thrown |-> FALSE,
                  error |-> NoError, value |-> NoToken]
        IN  requests' = [requests EXCEPT ![c] =
                IF v.thrown
                THEN Throw(r, Unauthorized("Refresh token invalido ou expirado"))
                ELSE r]
    /\ UNCHANGED <<now, redisUp, store, users, issued, refreshed, uuidCount,
                   res, registering, prisma, rabbit>>

\* refresh that looks the token up in the Revocation Store only once
RefreshExists_FirstCheckOnly(c) ==
    /\ requests[c].pc = "refresh.exists"
    /\ LET r == requests[c]
           isBlacklisted == IsTokenBlacklisted(store, r.token.claims.jti)
       IN  requests' = [requests EXCEPT ![c] =
               IF r.check = 2
               THEN [r EXCEPT !.pc = "refresh.sign"]
               ELSE IF isBlacklisted.thrown \/ isBlacklisted.value
               THEN Throw(r, Unauthorized("Refresh token invalido ou expirado"))
               ELSE [r EXCEPT !.pc = "refresh.findUnique"]]
    /\ UNCHANGED <<now, redisUp, store, users, issued, refreshed, uuidCount,
                   res, registering, prisma, rabbit>>

\* await this.isTokenBlacklisted(payload.jti) of verifyRefreshToken: the
\* first time called by refresh itself, the second time by refreshAccessToken
RefreshExists(c) ==
    /\ requests[c].pc = "refresh.exists"
    /\ LET r == requests[c]
           isBlacklisted == IsTokenBlacklisted(store, r.token.claims.jti)
       IN  requests' = [requests EXCEPT ![c] =
               IF isBlacklisted.thrown \/ isBlacklisted.value
               THEN Throw(r, Unauthorized("Refresh token invalido ou expirado"))
               ELSE IF r.check = 1
               THEN [r EXCEPT !.pc = "refresh.findUnique"]
               ELSE [r EXCEPT !.pc = "refresh.sign"]]
    /\ UNCHANGED <<now, redisUp, store, users, issued, refreshed, uuidCount,
                   res, registering, prisma, rabbit>>

\* await this.prisma.user.findUnique({ where: { id: payload.sub } }), then
\* refreshAccessToken begins with the verifyAsync of its verifyRefreshToken
RefreshFindUnique(c) ==
    /\ requests[c].pc = "refresh.findUnique"
    /\ LET r == requests[c]
           v == VerifyAsync(r.token, RefreshTokenSecret)
       IN  requests' = [requests EXCEPT ![c] =
               IF ~\E u \in users : u.id = r.token.claims.sub
               THEN Throw(r, Unauthorized("Usuario nao encontrado"))
               ELSE IF v.thrown
               THEN Throw(r, Unauthorized("Refresh token invalido ou expirado"))
               ELSE [r EXCEPT !.pc = "refresh.exists", !.check = 2]]
    /\ UNCHANGED <<now, redisUp, store, users, issued, refreshed, uuidCount,
                   res, registering, prisma, rabbit>>

\* randomUUID() and signAsync of refreshAccessToken; refresh returns
\* { accessToken }
RefreshSign(c) ==
    /\ requests[c].pc = "refresh.sign"
    /\ LET r == requests[c]
           accessToken == NewAccessToken(r.token.claims,
                                         RandomUUID(uuidCount + 1))
       IN  /\ requests' = [requests EXCEPT ![c] = Return(r, accessToken)]
           /\ refreshed' = refreshed \cup
                  {[refreshToken |-> r.token, accessToken |-> accessToken]}
           /\ uuidCount' = uuidCount + 1
    /\ UNCHANGED <<now, redisUp, store, users, issued, res, registering,
                   prisma, rabbit>>

RefreshNext ==
    \/ \E c \in Clients :
           \/ RefreshVerify(c)
           \/ RefreshExists(c)
           \/ RefreshFindUnique(c)
           \/ RefreshSign(c)
           \/ RequestReturn(c)
    \/ RegisterCall
    \/ LoginCall
    \/ BlacklistTokenCall
    \/ Respond
    \/ Tick
    \/ RedisFail
    \/ RedisRecover

RefreshSpec == Init /\ [][RefreshNext]_vars

----------------------------------------------------------------------------
(* JwtAuthGuard followed by RolesGuard *)

\* correctly signed access token that carries a role claim
AccessTokenWithRole(role) ==
    [sig |-> AccessTokenSecret,
     claims |-> Claims(<<"user", 123>>, "test@example.com", role,
                       <<"ext", "role">>, StartTime, TRUE,
                       StartTime + LifetimeSeconds(AccessTokenExpiresIn))]

\* what the Authorization header of a request to a @Roles route may hold
PipelineHeaders ==
    Headers \cup {[type |-> "Bearer", token |-> AccessTokenWithRole(role)] :
                     role \in {"admin", "user", ""}}

\* the global JwtAuthGuard runs first and attaches request.user, then the
\* RolesGuard of the route decides on request.user
GuardPipeline(jwt, requiredRoles) ==
    IF jwt.thrown
    THEN [stage |-> "JwtAuthGuard", thrown |-> TRUE, value |-> FALSE,
          error |-> jwt.error, user |-> jwt.user]
    ELSE LET roles == RolesGuardCanActivate(requiredRoles, jwt.user)
         IN  [stage |-> "RolesGuard", thrown |-> roles.thrown,
              value |-> roles.value, error |-> roles.error,
              user |-> jwt.user]

PipelineCall ==
    /\ res = NoCall
    /\ \E isPublic \in BOOLEAN, authHeader \in PipelineHeaders,
          requiredRoles \in RequiredRoleSets :
        res' = [op |-> "pipeline", isPublic |-> isPublic,
                authHeader |-> authHeader, requiredRoles |-> requiredRoles,
                result |-> GuardPipeline(
                    JwtAuthGuardCanActivate(store, isPublic, authHeader),
                    requiredRoles)]
    /\ UNCHANGED <<now, redisUp, store, users, issued, refreshed, uuidCount,
                   registering, usersVars>>

PipelineNext ==
    \/ PipelineCall
    \/ RegisterCall
    \/ LoginCall
    \/ BlacklistTokenCall
    \/ Respond
    \/ Tick
    \/ RedisFail
    \/ RedisRecover

PipelineSpec == Init /\ [][PipelineNext]_vars

----------------------------------------------------------------------------
(* A findOne next to an update of the same user: the handlers of two
   clients interleave at their awaits *)

CoherenceNext ==
    \/ \E c \in ConcurrentClients :
           \/ FindOneRequest(c)
           \/ FindOneGet(c)
           \/ FindOneFindUnique(c)
           \/ FindOneSet(c)
           \/ UpdateRequest(c)
           \/ UpdateFindUnique(c)
           \/ UpdateUser(c)
           \/ UpdateUpsert(c)
           \/ UpdatePublish(c)
           \/ UpdateFindUpdated(c)
           \/ UpdateDel(c)
           \/ RequestReturn(c)
    \/ CreateUserCall

CoherenceSpec == Init /\ [][CoherenceNext]_vars

----------------------------------------------------------------------------
(* RabbitMQService: the connection and its reconnection.  Besides the
   fields of the service the record keeps what the event loop holds for it:
   timers is the number of reconnect callbacks passed to setTimeout and not
   yet run, settingUp the number of them waiting in setupExchangeAndQueues(),
   handling the number of handleConnectionError calls waiting in
   their await of disconnect(), handlingInConnect those of them made by the
   catch of connect() inside a reconnect callback, live the number of
   connection objects that are open and carry the 'error' and 'close'
   handlers, closing the number of those that will still emit 'close' *)

\* reconnect work the event loop holds: callbacks about to be scheduled,
\* scheduled or running
Pending(rb) ==
    rb.timers + rb.settingUp + rb.handling + rb.handlingInConnect

\* this.connection is an open connection
CurrentLive(rb) == rb.connection /\ rb.open

\* handleConnectionError answering to the limit only once it is passed
HandleConnectionError_OffByOne(rb, caller) ==
    IF rb.reconnectAttempts > maxReconnectAttempts
    THEN rb
    ELSE [rb EXCEPT !.reconnectAttempts = @ + 1,
                    !.handling = IF caller = "connect" THEN @ ELSE @ + 1,
                    !.handlingInConnect =
                        IF caller = "connect" THEN @ + 1 ELSE @]

\* handleConnectionError() up to its await: the limit check and the
\* increment; the call then waits for disconnect()
HandleConnectionError(rb, caller) ==
    IF rb.reconnectAttempts >= maxReconnectAttempts
    THEN rb
    ELSE [rb EXCEPT !.reconnectAttempts = @ + 1,
                    !.handling = IF caller = "connect" THEN @ ELSE @ + 1,
                    !.handlingInConnect =
                        IF caller = "connect" THEN @ + 1 ELSE @]

\* disconnect(): channel.close() throws on a channel that is closed already
\* and the catch leaves both fields as they are; otherwise the channel and
\* the connection are closed and set to null, and the closed connection
\* will emit 'close'
Disconnect(rb) ==
    IF ~rb.channel \/ ~rb.open
    THEN rb
    ELSE [rb EXCEPT !.channel = FALSE, !.connection = FALSE,
                    !.open = FALSE, !.live = @ - 1, !.closing = @ + 1]

\* the try block of connect() when amqp.connect and createChannel succeed
Connected(rb) ==
    [rb EXCEPT !.connection = TRUE, !.channel = TRUE, !.open = TRUE,
               !.reconnectAttempts = 0,
               !.reconnectDelay = InitialReconnectDelay,
               !.live = @ + 1]

\* the catch of the reconnect callback without the upper limit of the delay
ReconnectCatch_Unbounded(rb) ==
    HandleConnectionError(
        [rb EXCEPT !.reconnectDelay = @ * 2], "callback")

\* the catch of the reconnect callback: the delay doubles up to its limit,
\* then handleConnectionError() is called again
ReconnectCatch(rb) ==
    HandleConnectionError(
        [rb EXCEPT !.reconnectDelay = Min({@ * 2, MaxReconnectDelay})],
        "callback")

\* onModuleInit(): connect() and setupExchangeAndQueues(); a failing
\* connect() calls handleConnectionError() in its catch and rethrows; a
\* failing setupExchangeAndQueues() leaves the connection as it is
OnModuleInit ==
    /\ ~rabbit.started
    /\ \E outcome \in {"connected", "connect fails"} :
        rabbit' =
            IF outcome = "connect fails"
            THEN HandleConnectionError([rabbit EXCEPT !.started = TRUE],
                                       "onModuleInit")
            ELSE Connected([rabbit EXCEPT !.started = TRUE])
    /\ UNCHANGED <<now, redisUp, store, users, issued, refreshed, uuidCount,
                   res, registering, prisma, requests>>

\* an open connection emits 'error': its handler calls
\* handleConnectionError(); the connection will emit 'close' next
ConnectionError ==
    /\ rabbit.live > 0
    /\ Pending(rabbit) < MaxTimers
    /\ \E current \in BOOLEAN :
        /\ current => CurrentLive(rabbit)
        /\ ~current => rabbit.live > (IF CurrentLive(rabbit) THEN 1 ELSE 0)
        /\ rabbit' = HandleConnectionError(
               [rabbit EXCEPT !.live = @ - 1, !.closing = @ + 1,
                              !.open = IF current THEN FALSE ELSE @],
               "event")
    /\ UNCHANGED <<now, redisUp, store, users, issued, refreshed, uuidCount,
                   res, registering, prisma, requests>>

\* a connection emits 'close', after its 'error', after its close() or
\* because the broker closed it: its handler calls handleConnectionError()
ConnectionClose ==
    /\ Pending(rabbit) < MaxTimers
    /\ \/ /\ rabbit.closing > 0
          /\ rabbit' = HandleConnectionError(
                 [rabbit EXCEPT !.closing = @ - 1], "event")
       \/ /\ rabbit.live > 0
          /\ \E current \in BOOLEAN :
              /\ current => CurrentLive(rabbit)
              /\ ~current =>
                     rabbit.live > (IF CurrentLive(rabbit) THEN 1 ELSE 0)
              /\ rabbit' = HandleConnectionError(
                     [rabbit EXCEPT !.live = @ - 1,
                                    !.open = IF current THEN FALSE ELSE @],
                     "event")
    /\ UNCHANGED <<now, redisUp, store, users, issued, refreshed, uuidCount,
                   res, registering, prisma, requests>>

\* a handleConnectionError() call made by an event handler, by onModuleInit's
\* connect() or by the catch of a reconnect callback resumes after
\* disconnect() and passes the reconnect callback to setTimeout
ScheduleReconnect ==
    /\ rabbit.handling > 0
    /\ rabbit' = [Disconnect(rabbit) EXCEPT !.handling = @ - 1,
                                            !.timers = @ + 1]
    /\ UNCHANGED <<now, redisUp, store, users, issued, refreshed, uuidCount,
                   res, registering, prisma, requests>>

\* the same for the call made by the catch of connect() inside a reconnect
\* callback: connect() then rethrows and the catch of the callback runs
ScheduleReconnectInConnect ==
    /\ rabbit.handlingInConnect > 0
    /\ Pending(rabbit) < MaxTimers
    /\ rabbit' = ReconnectCatch(
           [Disconnect(rabbit) EXCEPT !.handlingInConnect = @ - 1,
                                      !.timers = @ + 1])
    /\ UNCHANGED <<now, redisUp, store, users, issued, refreshed, uuidCount,
                   res, registering, prisma, requests>>

\* a reconnect callback runs and its connect() succeeds; the callback goes
\* on to setupExchangeAndQueues()
ReconnectConnects ==
    /\ rabbit.timers > 0
    /\ rabbit.live + rabbit.closing < MaxConnections
    /\ rabbit' = Connected([rabbit EXCEPT !.timers = @ - 1,
                                          !.settingUp = @ + 1])
    /\ UNCHANGED <<now, redisUp, store, users, issued, refreshed, uuidCount,
                   res, registering, prisma, requests>>

\* setupExchangeAndQueues() of a reconnect callback succeeds
ReconnectSetupSucceeds ==
    /\ rabbit.settingUp > 0
    /\ rabbit' = [rabbit EXCEPT !.settingUp = @ - 1]
    /\ UNCHANGED <<now, redisUp, store, users, issued, refreshed, uuidCount,
                   res, registering, prisma, requests>>

\* setupExchangeAndQueues() of a reconnect callback throws and the catch of
\* the callback runs
ReconnectSetupFails ==
    /\ rabbit.settingUp > 0
    /\ rabbit' = ReconnectCatch([rabbit EXCEPT !.settingUp = @ - 1])
    /\ UNCHANGED <<now, redisUp, store, users, issued, refreshed, uuidCount,
                   res, registering, prisma, requests>>

\* a reconnect callback runs and connect() fails: its catch calls
\* handleConnectionError(); when that returns at once, for the limit,
\* connect() rethrows and the catch of the callback runs
ReconnectConnectFails ==
    /\ rabbit.timers > 0
    /\ LET rb == [rabbit EXCEPT !.timers = @ - 1]
       IN  rabbit' = IF rb.reconnectAttempts >= maxReconnectAttempts
                     THEN ReconnectCatch(HandleConnectionError(rb, "connect"))
                     ELSE HandleConnectionError(rb, "connect")
    /\ UNCHANGED <<now, redisUp, store, users, issued, refreshed, uuidCount,
                   res, registering, prisma, requests>>

ReconnectNext ==
    \/ OnModuleInit
    \/ ConnectionError
    \/ ConnectionClose
    \/ ScheduleReconnect
    \/ ScheduleReconnectInConnect
    \/ ReconnectConnects
    \/ ReconnectSetupSucceeds
    \/ ReconnectSetupFails
    \/ ReconnectConnectFails

ReconnectSpec == Init /\ [][ReconnectNext]_vars

----------------------------------------------------------------------------
(* RabbitMQService.consumeQueue: rabbit.messages holds, for every message
   the consumer callback was called with, where its processing stands and
   the ack and nack calls made for it *)

\* msg.content of a delivered message
MessageContents ==
    {[kind |-> "json", body |-> [userId |-> <<"user", 1>>]],
     [kind |-> "text", body |-> <<>>]}

\* this.channel?.X(msg, ...): nothing without a channel; a closed channel
\* throws; an open one sends the frame to the broker
ChannelCall(rb, op) ==
    IF ~rb.channel
    THEN <<>>
    ELSE <<[op |-> op, requeue |-> FALSE,
            result |-> IF rb.open THEN "sent" ELSE "thrown"]>>

\* the outer catch of the callback: nack without requeue; when nack throws,
\* the error leaves the async function as an unhandled rejection
OnError(rb, m, outcome) ==
    LET nack == ChannelCall(rb, "nack")
    IN  [m EXCEPT !.pc = "done", !.outcome = outcome,
                  !.calls = @ \o nack,
                  !.unhandled = nack # <<>> /\ nack[1].result = "thrown"]

\* after the race was won by the handler: ack; an error of ack is caught by
\* the outer catch
OnSuccess(rb, m) ==
    LET ack == ChannelCall(rb, "ack")
    IN  IF ack # <<>> /\ ack[1].result = "thrown"
        THEN OnError(rb, [m EXCEPT !.calls = @ \o ack], "resolved")
        ELSE [m EXCEPT !.pc = "done", !.outcome = "resolved",
                       !.calls = @ \o ack]

\* consumeQueue(queueName, onMessage): throws without a channel; otherwise
\* channel.consume registers the callback, or throws on a closed channel
ConsumeQueueCall ==
    /\ res = NoCall
    /\ ~rabbit.consuming
    /\ rabbit' = [rabbit EXCEPT !.consuming = rabbit.channel /\ rabbit.open]
    /\ res' = [op |-> "consumeQueue",
               thrown |-> ~(rabbit.channel /\ rabbit.open),
               error |-> IF ~rabbit.channel
                         THEN PlainError("Canal nao esta disponivel. RabbitMQ nao conectado.")
                         ELSE IF ~rabbit.open
                         THEN PlainError("Channel closed")
                         ELSE NoError]
    /\ UNCHANGED <<now, redisUp, store, users, issued, refreshed, uuidCount,
                   registering, prisma, requests>>

\* the channel calls the callback with a message: JSON.parse, then either
\* the nack of the parse error or the start of the handler and of the timer
Deliver ==
    /\ rabbit.consuming
    /\ rabbit.channel
    /\ rabbit.open
    /\ Len(rabbit.messages) < MaxMessages
    /\ \E content \in MessageContents :
        LET m == [content |-> content, pc |-> "racing",
                  handler |-> "running", timer |-> "pending",
                  outcome |-> "none", calls |-> <<>>, unhandled |-> FALSE]
        IN  rabbit' = [rabbit EXCEPT !.messages = Append(@,
                IF JsonParse(content).thrown
                THEN [OnError(rabbit, m, "parse error")
                         EXCEPT !.handler = "not called",
                                !.timer = "not set"]
                ELSE m)]
    /\ UNCHANGED <<now, redisUp, store, users, issued, refreshed, uuidCount,
                   res, registering, prisma, requests>>

\* the channel calls the callback with null (the consumer was cancelled):
\* the callback returns at once
DeliverNull ==
    /\ rabbit.consuming
    /\ rabbit.channel
    /\ rabbit.open
    /\ rabbit' = [rabbit EXCEPT !.consuming = FALSE]
    /\ UNCHANGED <<now, redisUp, store, users, issued, refreshed, uuidCount,
                   res, registering, prisma, requests>>

\* onMessage(content) resolves: when the race is still open, the ack
HandlerResolves(i) ==
    /\ i <= Len(rabbit.messages)
    /\ rabbit.messages[i].handler = "running"
    /\ LET m == [rabbit.messages[i] EXCEPT !.handler = "resolved"]
       IN  rabbit' = [rabbit EXCEPT !.messages[i] =
               IF m.pc = "racing" THEN OnSuccess(rabbit, m) ELSE m]
    /\ UNCHANGED <<now, redisUp, store, users, issued, refreshed, uuidCount,
                   res, registering, prisma, requests>>

\* onMessage(content) rejects: when the race is still open, the outer catch
HandlerRejects(i) ==
    /\ i <= Len(rabbit.messages)
    /\ rabbit.messages[i].handler = "running"
    /\ LET m == [rabbit.messages[i] EXCEPT !.handler = "rejected"]
       IN  rabbit' = [rabbit EXCEPT !.messages[i] =
               IF m.pc = "racing" THEN OnError(rabbit, m, "handler error")
               ELSE m]
    /\ UNCHANGED <<now, redisUp, store, users, issued, refreshed, uuidCount,
                   res, registering, prisma, requests>>

\* the 30 second timer of a message runs (it is never cleared): when the
\* race is still open, the outer catch
MessageTimeout(i) ==
    /\ i <= Len(rabbit.messages)
    /\ rabbit.messages[i].timer = "pending"
    /\ LET m == [rabbit.messages[i] EXCEPT !.timer = "fired"]
       IN  rabbit' = [rabbit EXCEPT !.messages[i] =
               IF m.pc = "racing" THEN OnError(rabbit, m, "timeout")
               ELSE m]
    /\ UNCHANGED <<now, redisUp, store, users, issued, refreshed, uuidCount,
                   res, registering, prisma, requests>>

ConsumeNext ==
    \/ ConsumeQueueCall
    \/ Deliver
    \/ DeliverNull
    \/ \E i \in 1..MaxMessages :
           \/ HandlerResolves(i)
           \/ HandlerRejects(i)
           \/ MessageTimeout(i)
    \/ RabbitConnect
    \/ RabbitDisconnect
    \/ ChannelClosed
    \/ Respond

ConsumeSpec == Init /\ [][ConsumeNext]_vars

----------------------------------------------------------------------------
(* Properties *)

\* the revocation entry of jti is in the store
InStore(jti) == BlacklistKey(jti) \in DOMAIN store

\* token is signed with secret and is not past its expiry
SignedAndUnexpired(token, secret) ==
    /\ token.sig = secret
    /\ token.claims.hasExp => now < token.claims.exp

\* C1: once blacklistToken(jti, exp) with exp in the future has completed,
\* the entry token:blacklist:{jti} is in the store, and as long as it is
\* there verifyAccessToken and verifyRefreshToken of every token carrying
\* that jti fail with an UnauthorizedException, valid signature and expiry
\* notwithstanding.
C1_BlacklistedTokenFailsVerification ==
    /\ (res.op = "blacklistToken" /\ ~res.thrown /\ res.expiresIn > now)
           => InStore(res.jti)
    /\ res = NoCall =>
           \A t \in Tokens :
               (t.claims.jti # NoJti /\ InStore(t.claims.jti)) =>
                   /\ VerifyAccessToken(store, t).thrown
                   /\ VerifyRefreshToken(store, t).thrown
    /\ (/\ res.op \in {"verifyAccessToken", "verifyRefreshToken"}
        /\ res.token.claims.jti # NoJti
        /\ InStore(res.token.claims.jti))
           => /\ res.result.thrown
              /\ res.result.error.type = "UnauthorizedException"

\* a verifyAccessToken call on a correctly signed, unexpired token whose jti
\* is in the reachable store has failed
C1_Witness ==
    /\ res.op = "verifyAccessToken"
    /\ redisUp
    /\ SignedAndUnexpired(res.token, AccessTokenSecret)
    /\ res.token.claims.jti # NoJti
    /\ InStore(res.token.claims.jti)
    /\ res.result.thrown

\* C2: after a login returned (accessToken, refreshToken) and
\* logout(accessToken, refreshToken) has returned with the store reachable
\* and the access token not yet expired, verifyAccessToken(accessToken)
\* fails.
C2_LogoutRevokesAccessToken ==
    (/\ res.op = "logout"
     /\ ~res.result.thrown
     /\ redisUp
     /\ \E p \in issued : /\ res.accessToken = p.accessToken
                          /\ res.refreshToken = p.refreshToken
     /\ now < res.accessToken.claims.exp)
        => VerifyAccessToken(store, res.accessToken).thrown

\* C3: once the jti of a token is in the Revocation Store, the token fails
\* verification after every step, the passage of time included.
C3_RevocationAbsorbing ==
    [][\A t \in Tokens :
          (t.claims.jti # NoJti /\ InStore(t.claims.jti)) =>
              (/\ VerifyAccessToken(store, t).thrown
               /\ VerifyRefreshToken(store, t).thrown)']_vars

\* C4: when the store's existence check fails, verifyAccessToken and
\* verifyRefreshToken of a token that has a jti fail with an
\* UnauthorizedException and return no claims.
C4_FailClosed ==
    /\ (res = NoCall /\ ~redisUp) =>
           \A t \in Tokens :
               t.claims.jti # NoJti =>
                   /\ VerifyAccessToken(store, t).thrown
                   /\ VerifyRefreshToken(store, t).thrown
    /\ (/\ res.op \in {"verifyAccessToken", "verifyRefreshToken"}
        /\ ~redisUp
        /\ res.token.claims.jti # NoJti)
           => /\ res.result.thrown
              /\ res.result.error.type = "UnauthorizedException"
              /\ "payload" \notin DOMAIN res.result

\* verifyAccessToken of a correctly signed, unexpired token with a jti that
\* is not revoked has failed because the store did not answer
C4_Witness ==
    /\ res.op = "verifyAccessToken"
    /\ ~redisUp
    /\ SignedAndUnexpired(res.token, AccessTokenSecret)
    /\ res.token.claims.jti # NoJti
    /\ ~InStore(res.token.claims.jti)
    /\ res.result.thrown
    /\ res.result.calls = 1

C6_BlacklistTtl ==
    res.op = "blacklistToken" =>
        IF res.expiresIn - now <= 0
        THEN res.writes = <<>> /\ ~res.thrown
        ELSE \/ /\ ~redisUp
                /\ res.thrown
                /\ res.writes = <<>>
             \/ /\ redisUp
                /\ ~res.thrown
                /\ res.writes = <<[key |-> <<"token:blacklist", res.jti>>,
                                   ttl |-> res.expiresIn - now]>>
                /\ InStore(res.jti)
                /\ store[BlacklistKey(res.jti)].hasTtl
                /\ store[BlacklistKey(res.jti)].expireAt = res.expiresIn

\* blacklistToken with an expiry in the future has written its entry
C6_Witness ==
    /\ res.op = "blacklistToken"
    /\ res.expiresIn > now
    /\ Len(res.writes) = 1
    /\ InStore(res.jti)

\* C7: isTokenBlacklisted(undefined) returns false without a store call,
\* and verifyAccessToken of a correctly signed, unexpired token without jti
\* succeeds whatever the store holds and whether or not it answers.
C7_NoJtiNeverRevoked ==
    /\ (res.op = "isTokenBlacklisted" /\ res.jti = NoJti) =>
           (~res.result.thrown /\ ~res.result.value /\ res.result.calls = 0)
    /\ (/\ res.op = "verifyAccessToken"
        /\ SignedAndUnexpired(res.token, AccessTokenSecret)
        /\ res.token.claims.jti = NoJti)
           => /\ ~res.result.thrown
              /\ res.result.calls = 0
              /\ res.result.payload = res.token.claims

\* verifyAccessToken of the jti-less token has succeeded with the store
\* down and not empty
C7_Witness ==
    /\ res.op = "verifyAccessToken"
    /\ res.token = TokenWithoutJti
    /\ ~redisUp
    /\ DOMAIN store # {}
    /\ ~res.result.thrown
    /\ res.result.calls = 0

\* C8: the two tokens of a generateTokens(subjectId, email, role?) call
\* carry the same jti and the sub, email and role of the call (no role in
\* either when none is given), and the jti is one no earlier issuance has.
C8_GenerateTokensClaims ==
    res.op = "generateTokens" =>
        LET a == res.value.accessToken.claims
            r == res.value.refreshToken.claims
        IN  /\ a.jti = r.jti /\ a.jti # NoJti
            /\ a.sub = res.args.userId /\ r.sub = res.args.userId
            /\ a.email = res.args.email /\ r.email = res.args.email
            /\ a.role = res.args.role /\ r.role = res.args.role
            /\ \A t \in IssuedTokens : t.claims.jti # a.jti

\* C9: refreshAccessToken of a valid refresh token returns an access token
\* with another jti and the refresh token's sub, email and role.
C9_RefreshKeepsClaims ==
    (res.op = "refreshAccessToken" /\ ~res.result.thrown) =>
        LET a == res.result.token.claims
            r == res.token.claims
        IN  /\ a.jti # r.jti
            /\ a.sub = r.sub
            /\ a.email = r.email
            /\ a.role = r.role

\* C10: for an access token minted by refreshAccessToken from a refresh
\* token, a blacklistToken call on the access token's jti leaves the
\* refresh token verifying, and one on the refresh token's jti leaves the
\* access token verifying.
C10_IndependentRevocation ==
    [][\A p \in refreshed :
          /\ (/\ res'.op = "blacklistToken"
              /\ res'.jti = p.accessToken.claims.jti
              /\ ~VerifyRefreshToken(store, p.refreshToken).thrown)
                 => (~VerifyRefreshToken(store, p.refreshToken).thrown)'
          /\ (/\ res'.op = "blacklistToken"
              /\ res'.jti = p.refreshToken.claims.jti
              /\ ~VerifyAccessToken(store, p.accessToken).thrown)
                 => (~VerifyAccessToken(store, p.accessToken).thrown)']_vars

\* the refresh token's jti has just been blacklisted and the access token
\* minted from it still verifies
C10_Witness ==
    /\ res.op = "blacklistToken"
    /\ \E p \in refreshed :
           /\ res.jti = p.refreshToken.claims.jti
           /\ InStore(p.refreshToken.claims.jti)
           /\ VerifyRefreshToken(store, p.refreshToken).thrown
           /\ ~VerifyAccessToken(store, p.accessToken).thrown

\* C11: the access token of a generateTokens call, of a login and of a
\* refreshAccessToken call verifies with verifyAccessToken right after the
\* call (store reachable), and the claims returned carry the sub and email
\* the token was issued for.
C11_FreshAccessTokenVerifies ==
    /\ (res.op = "generateTokens" /\ redisUp) =>
           LET v == VerifyAccessToken(store, res.value.accessToken)
           IN  /\ ~v.thrown
               /\ v.payload.sub = res.args.userId
               /\ v.payload.email = res.args.email
    /\ (res.op = "login" /\ ~res.result.thrown /\ redisUp) =>
           LET v == VerifyAccessToken(store, res.result.value.accessToken)
           IN  /\ ~v.thrown
               /\ v.payload.sub = res.result.value.user.id
               /\ v.payload.email = res.email
    /\ (res.op = "refreshAccessToken" /\ ~res.result.thrown /\ redisUp) =>
           LET v == VerifyAccessToken(store, res.result.token)
           IN  /\ ~v.thrown
               /\ v.payload.sub = res.token.claims.sub
               /\ v.payload.email = res.token.claims.email

\* a login has just returned with the store reachable and holding entries,
\* and its access token verifies
C11_Witness ==
    /\ res.op = "login"
    /\ ~res.result.thrown
    /\ redisUp
    /\ DOMAIN store # {}
    /\ res.result.value.accessToken.claims.iat = now
    /\ ~VerifyAccessToken(store, res.result.value.accessToken).thrown

\* C12: at every time at or after the exp of a token, verifyAccessToken and
\* verifyRefreshToken of that token fail with an UnauthorizedException and
\* return no claims, whatever the store holds and whether or not it answers.
C12_ExpiryAbsorbing ==
    /\ res = NoCall =>
           \A t \in Tokens :
               (t.claims.hasExp /\ now >= t.claims.exp) =>
                   /\ VerifyAccessToken(store, t).thrown
                   /\ VerifyAccessToken(store, t).error.type
                          = "UnauthorizedException"
                   /\ VerifyRefreshToken(store, t).thrown
                   /\ VerifyRefreshToken(store, t).error.type
                          = "UnauthorizedException"
    /\ (/\ res.op \in {"verifyAccessToken", "verifyRefreshToken"}
        /\ res.token.claims.hasExp
        /\ now >= res.token.claims.exp)
           => /\ res.result.thrown
              /\ res.result.error.type = "UnauthorizedException"
              /\ "payload" \notin DOMAIN res.result

\* verifyAccessToken of a login's access token has failed at the very second
\* of its exp, the store reachable and the token's jti not revoked
C12_Witness ==
    /\ res.op = "verifyAccessToken"
    /\ res.token \in {p.accessToken : p \in issued}
    /\ now = res.token.claims.exp
    /\ redisUp
    /\ ~InStore(res.token.claims.jti)
    /\ res.result.thrown

\* C13: a refresh token never passes verifyAccessToken, and an access token
\* never passes verifyRefreshToken nor refreshAccessToken, the two classes
\* being signed with different secrets.
C13_TokenClassesNotInterchangeable ==
    /\ res = NoCall =>
           /\ \A p \in issued :
                  /\ VerifyAccessToken(store, p.refreshToken).thrown
                  /\ VerifyRefreshToken(store, p.accessToken).thrown
           /\ \A p \in refreshed :
                  /\ VerifyAccessToken(store, p.refreshToken).thrown
                  /\ VerifyRefreshToken(store, p.accessToken).thrown
    /\ (res.op = "verifyAccessToken" /\ res.token.sig = RefreshTokenSecret)
           => res.result.thrown
    /\ (/\ res.op \in {"verifyRefreshToken", "refreshAccessToken"}
        /\ res.token.sig = AccessTokenSecret)
           => res.result.thrown

\* refreshAccessToken has refused a login's access token that is unexpired
\* and not revoked, the store reachable
C13_Witness ==
    /\ res.op = "refreshAccessToken"
    /\ res.token \in {p.accessToken : p \in issued}
    /\ SignedAndUnexpired(res.token, AccessTokenSecret)
    /\ redisUp
    /\ ~InStore(res.token.claims.jti)
    /\ res.result.thrown

\* C14: every failure of verifyAccessToken reaches the caller as the same
\* UnauthorizedException (type and message), whether the token is wrongly
\* signed, malformed, expired or revoked or the store fails, and on a
\* protected route JwtAuthGuard answers every such failure with one and the
\* same Unauthorized response and attaches no identity.
C14_UniformVerificationFailure ==
    /\ res = NoCall =>
           \A t1 \in Tokens, t2 \in Tokens :
               (/\ VerifyAccessToken(store, t1).thrown
                /\ VerifyAccessToken(store, t2).thrown)
                   => /\ VerifyAccessToken(store, t1).error
                             = VerifyAccessToken(store, t2).error
                      /\ ValidateToken(store, t1) = ValidateToken(store, t2)
    /\ (res.op = "verifyAccessToken" /\ res.result.thrown) =>
           /\ res.result.error = Unauthorized("Token invalido ou expirado")
           /\ "payload" \notin DOMAIN res.result
    /\ (/\ res.op = "jwtAuthGuard"
        /\ ~res.isPublic
        /\ ExtractTokenFromHeader(res.authHeader) # NoToken
        /\ VerifyAccessToken(store,
               ExtractTokenFromHeader(res.authHeader)).thrown)
           => res.result = [thrown |-> TRUE,
                            error |-> Unauthorized("Token invalido ou expirado"),
                            user |-> NoUser]

\* JwtAuthGuard has rejected a correctly signed, unexpired token because its
\* jti is revoked, while another correctly signed token is past its exp
C14_Witness ==
    /\ res.op = "jwtAuthGuard"
    /\ ~res.isPublic
    /\ redisUp
    /\ SignedAndUnexpired(res.authHeader.token, AccessTokenSecret)
    /\ InStore(res.authHeader.token.claims.jti)
    /\ res.result.thrown
    /\ \E t \in Tokens : /\ t.sig = AccessTokenSecret
                         /\ t.claims.hasExp
                         /\ now >= t.claims.exp

\* C19: for every password p and every salt hashPassword draws,
\* verifyPassword(p, hashPassword(p)) returns true.
C19_VerifyAcceptsOwnHash ==
    /\ res = NoCall =>
           \A p \in PlainPasswords, salt \in Salts :
               VerifyPassword(p, HashPassword(p, salt))
    /\ (res.op = "verifyPassword" /\ res.password = res.hashedFrom.password)
           => res.value

\* verifyPassword has accepted the empty password against its own hash made
\* with the all-zero salt
C19_Witness ==
    /\ res.op = "verifyPassword"
    /\ res.password = res.hashedFrom.password
    /\ res.password = ""
    /\ \A i \in 1..SaltLen : res.hashedFrom.salt[i] = 0
    /\ Len(res.hashedPassword) = 44 + 1 + 88
    /\ res.value

\* C20: for passwords p1 # p2 whose derived keys under the salt differ,
\* verifyPassword(p1, hashPassword(p2)) returns false.
C20_VerifyRejectsOtherPassword ==
    /\ res = NoCall =>
           \A p1 \in PlainPasswords, p2 \in PlainPasswords, salt \in Salts :
               (/\ p1 # p2
                /\ Scrypt(p1, salt, DkLen) # Scrypt(p2, salt, DkLen))
                   => ~VerifyPassword(p1, HashPassword(p2, salt))
    /\ (/\ res.op = "verifyPassword"
        /\ res.password # res.hashedFrom.password
        /\ Scrypt(res.password, res.hashedFrom.salt, DkLen)
               # Scrypt(res.hashedFrom.password, res.hashedFrom.salt, DkLen))
           => ~res.value

\* verifyPassword has rejected 'senha456' against the hash of 'senha123'
C20_Witness ==
    /\ res.op = "verifyPassword"
    /\ res.password = "senha456"
    /\ res.hashedFrom.password = "senha123"
    /\ Scrypt(res.password, res.hashedFrom.salt, DkLen)
           # Scrypt(res.hashedFrom.password, res.hashedFrom.salt, DkLen)
    /\ ~res.value

\* C15: login throws the same UnauthorizedException, type and message, for
\* an email no user has and for a wrong password of an existing user, and
\* in both cases generateTokens is not called: no token is returned and no
\* randomUUID is drawn.
C15_LoginErrorsIndistinguishable ==
    [][(res'.op = "login" /\ res'.result.thrown) =>
           /\ res'.result.error = Unauthorized("Credenciais invalidas")
           /\ DOMAIN res'.result = {"thrown", "error"}
           /\ uuidCount' = uuidCount
           /\ issued' = issued
           /\ \A e \in LoginEmails, p \in Passwords :
                  Login([email |-> e, password |-> p],
                        RandomUUID(uuidCount + 1)).thrown
                      => Login([email |-> e, password |-> p],
                               RandomUUID(uuidCount + 1)).error
                             = res'.result.error]_vars

\* a login with a wrong password for a registered email has failed, in a
\* state where a login for an unregistered email fails too
C15_Witness ==
    /\ res.op = "login"
    /\ FindByEmail(res.email) # {}
    /\ res.result.thrown
    /\ \E e \in LoginEmails :
           /\ FindByEmail(e) = {}
           /\ Login([email |-> e, password |-> "password1234"],
                    RandomUUID(uuidCount + 1)).thrown

\* C16: register with an email a record already has throws
\* ConflictException, creates no record and does not hash the password;
\* otherwise it creates exactly one record, with that email, and the user
\* it returns has no password hash.
C16_RegisterConflictOrCreate ==
    [][res'.op = "register" =>
           IF FindByEmail(res'.email) # {}
           THEN /\ res'.result.thrown
                /\ res'.result.error.type = "ConflictException"
                /\ res'.result.hashCalls = 0
                /\ users' = users
           ELSE /\ ~res'.result.thrown
                /\ res'.result.hashCalls = 1
                /\ Cardinality(users') = Cardinality(users) + 1
                /\ users \subseteq users'
                /\ \A u \in users' \ users :
                       /\ u.email = res'.email
                       /\ VerifyPassword(res'.password, u.passwordHash)
                       /\ \A f \in DOMAIN res'.result.value.user :
                              /\ f # "passwordHash"
                              /\ f \in {"id", "name", "email", "createdAt"}
                       /\ res'.result.value.user.id = u.id]_vars

\* register has refused an email that a record already has
C16_Witness ==
    /\ res.op = "register"
    /\ res.result.thrown
    /\ Cardinality(FindByEmail(res.email)) = 1
    /\ res.result.hashCalls = 0

\* the elements of a sequence
Range(q) == {q[i] : i \in 1..Len(q)}

\* C18: RolesGuard.canActivate allows when the required roles are absent or
\* empty; otherwise it denies (ForbiddenException) when there is no
\* identity; otherwise it denies when the identity has no role; otherwise it
\* denies, with a message that names every required role and the actual
\* role, when the role is not among the required ones; otherwise it allows.
C18_RolesGuardDecision ==
    res.op = "rolesGuard" =>
        LET required == res.requiredRoles
            user == res.user
            out == res.result
            denied == /\ out.thrown
                      /\ out.error.type = "ForbiddenException"
            allowed == ~out.thrown /\ out.value = TRUE
        IN  IF ~required.defined \/ required.roles = <<>>
            THEN allowed
            ELSE IF user = NoUser
            THEN denied
            ELSE IF user.role \in {NoRole, ""}
            THEN denied /\ Len(out.error.message) = 1
            ELSE IF user.role \notin Range(required.roles)
            THEN /\ denied
                 /\ Len(out.error.message) = 4
                 /\ Range(required.roles) \subseteq Range(out.error.message[2])
                 /\ out.error.message[4] = user.role
            ELSE allowed

\* the gate has denied an identity whose role is neither of the two
\* required ones, naming all three
C18_Witness ==
    /\ res.op = "rolesGuard"
    /\ res.requiredRoles.roles = <<"admin", "manager">>
    /\ res.user # NoUser
    /\ res.user.role = "user"
    /\ res.result.thrown
    /\ res.result.error.message[2] = <<"admin", ", ", "manager">>
    /\ res.result.error.message[4] = "user"

\* C17: after any interleaving of register calls, two calls with the same
\* email that both passed the existence check included, the users table
\* holds at most one record per email.
C17_EmailUnique ==
    \A u1 \in users, u2 \in users : u1.email = u2.email => u1 = u2

\* two register calls for one email had both passed the existence check;
\* one has created the record and the other's create has failed
C17_Witness ==
    \E p \in Procs, q \in Procs :
        /\ p # q
        /\ registering[p].pc = "done"
        /\ ~registering[p].thrown
        /\ registering[q].pc = "done"
        /\ registering[q].thrown
        /\ registering[q].error.type = "PrismaClientKnownRequestError"
        /\ registering[q].registerDto.email = registering[p].registerDto.email
        /\ Cardinality(FindByEmail(registering[p].registerDto.email)) = 1

\* C21: verifyPassword returns false, and does not raise, for every
\* malformed stored hash: the empty string, a string without ':', a string
\* with an empty salt part, a string with an empty key part, a string whose
\* parts are not valid base64.
C21_MalformedHashRejected ==
    res.op = "verifyStoredHash" => ~res.value

\* C22: logout reads the jti of an access token the service issued even
\* when that token is past its expiry, and whenever the refresh token
\* supplied with it is valid and the store is reachable, once logout has
\* returned the refresh token's jti is in the Revocation Store until the
\* refresh token's expiry, whether or not the access token was still valid.
C22_LogoutRevokesRefreshToken ==
    [][(/\ res'.op = "logout"
        /\ redisUp
        /\ \E p \in issued : res'.accessToken = p.accessToken
        /\ ~VerifyRefreshToken(store, res'.refreshToken).thrown)
           => /\ ~res'.result.thrown
              /\ BlacklistKey(res'.refreshToken.claims.jti) \in DOMAIN store'
              /\ store'[BlacklistKey(res'.refreshToken.claims.jti)].expireAt
                     = res'.refreshToken.claims.exp]_vars

\* C23: for every jti already in the Revocation Store, a further
\* blacklistToken call for the same jti, whatever its expiry argument, never
\* makes the jti stop being blacklisted earlier than without that call: the
\* entry is still there and does not expire sooner.
C23_BlacklistRepeatHarmless ==
    [][(res'.op = "blacklistToken" /\ InStore(res'.jti))
           => /\ BlacklistKey(res'.jti) \in DOMAIN store'
              /\ store[BlacklistKey(res'.jti)].hasTtl
                     \/ ~store'[BlacklistKey(res'.jti)].hasTtl
              /\ store'[BlacklistKey(res'.jti)].hasTtl
                     => store'[BlacklistKey(res'.jti)].expireAt
                            >= store[BlacklistKey(res'.jti)].expireAt]_vars

C25_OwnershipEnforced ==
    [][\A c \in Clients :
          (/\ requests'[c].pc # "idle"
           /\ requests'[c].id # requests'[c].currentUser.userId)
          => /\ requests'[c].pc = "done"
             /\ requests'[c].thrown
             /\ requests'[c].error.type = "ForbiddenException"
             /\ ~requests'[c].invoked
             /\ requests'[c].reads = 0
             /\ requests'[c] # requests[c]
                    => (prisma' = prisma /\ store' = store
                        /\ rabbit' = rabbit)]_vars

\* a route has refused a caller that named an existing user's id which is
\* not the caller's own
C25_Witness ==
    \E c \in Clients :
        /\ requests[c].pc = "done"
        /\ requests[c].route \in {"findOne", "update", "updateProfilePicture"}
        /\ requests[c].id \in {u.id : u \in prisma.user}
        /\ requests[c].id # requests[c].currentUser.userId
        /\ requests[c].error.type = "ForbiddenException"
        /\ ~requests[c].invoked

\* C26: findOne(id) answers from the cache, without a database read, when
\* user:{id} holds parseable JSON; on a miss or an unparseable value it
\* reads the database and, the cache being reachable, stores the user under
\* user:{id} with the cache TTL; when no row has the id it fails with
\* not-found and the cache is left as it was.
C26_CacheAsideRead ==
    [][\A c \in Clients :
          (requests[c].pc # "idle" /\ requests[c].route = "findOne"
           /\ requests'[c] # requests[c] /\ requests'[c].pc # "idle")
          => LET r == requests[c]
                 q == requests'[c]
                 key == CacheKey(r.id)
             IN  /\ (r.pc = "findOne.get" /\ redisUp /\ key \in DOMAIN store
                     /\ store[key].value.kind = "json")
                    => /\ q.pc = "done" /\ ~q.thrown /\ q.reads = 0
                       /\ q.value = store[key].value.body
                       /\ store' = store
                 /\ (r.pc = "findOne.get" /\ redisUp
                     /\ (key \in DOMAIN store
                            => store[key].value.kind # "json"))
                    => q.pc = "findOne.findUnique" /\ store' = store
                 /\ r.pc = "findOne.findUnique"
                    => /\ q.reads = 1
                       /\ store' = store
                       /\ IF \E u \in prisma.user : u.id = r.id
                          THEN /\ q.pc = "findOne.set"
                               /\ q.user.id = r.id
                               /\ \E u \in prisma.user :
                                      /\ u.id = r.id
                                      /\ u.name = q.user.name
                                      /\ u.email = q.user.email
                                      /\ u.updatedAt = q.user.updatedAt
                          ELSE /\ q.pc = "done" /\ q.thrown
                               /\ q.error.type = "NotFoundException"
                 /\ (r.pc = "findOne.set" /\ redisUp)
                    => /\ q.pc = "done" /\ ~q.thrown /\ q.value = r.user
                       /\ key \in DOMAIN store'
                       /\ store'[key].hasTtl
                       /\ store'[key].expireAt = now + CacheTtl
                       /\ store'[key].value.kind = "json"
                       /\ store'[key].value.body.id = r.id
                       /\ store'[key].value.body.name = r.user.name
                       /\ store'[key].value.body.email = r.user.email]_vars

\* findOne has answered an existing user from the cache without a database
\* read, the entry having been stored by an earlier findOne
C26_Witness ==
    \E c \in Clients :
        /\ requests[c].pc = "done"
        /\ requests[c].route = "findOne"
        /\ ~requests[c].thrown
        /\ requests[c].cached.kind = "json"
        /\ requests[c].reads = 0
        /\ requests[c].value.id = requests[c].id
        /\ CacheKey(requests[c].id) \in DOMAIN store
        /\ store[CacheKey(requests[c].id)].expireAt = now + CacheTtl

\* C27: every update that succeeds ends with the step that deletes
\* user:{id}, taken after its database writes and its second read; the
\* cache being reachable, the key is absent when update returns.
C27_UpdateInvalidatesCache ==
    [][\A c \in Clients :
          (/\ requests[c].pc \notin {"idle", "done"}
           /\ requests[c].route = "update"
           /\ requests'[c].pc = "done"
           /\ ~requests'[c].thrown)
          => /\ requests[c].pc = "update.del"
             /\ requests[c].reads = 2
             /\ prisma' = prisma
             /\ requests'[c].value = requests[c].user
             /\ redisUp => CacheKey(requests[c].id) \notin DOMAIN store']_vars

\* an update of the user's name has returned with the cache reachable, no
\* warning logged, and user:{id} absent
C27_Witness ==
    \E c \in Clients :
        /\ requests[c].pc = "done"
        /\ requests[c].route = "update"
        /\ ~requests[c].thrown
        /\ requests[c].body.name # Undefined
        /\ requests[c].value.name = requests[c].body.name
        /\ requests[c].log = <<>>
        /\ redisUp
        /\ CacheKey(requests[c].id) \notin DOMAIN store

\* C28: a cache failure does not fail the operation: when the cache write
\* of findOne fails, findOne returns the row it read from the database;
\* when the cache delete of update fails, update returns the user as re-read
\* after its writes and the database is left with them.
C28_CacheFailureNotFatal ==
    [][\A c \in Clients :
          (requests[c].pc \in {"findOne.set", "update.del"} /\ ~redisUp
           /\ requests'[c] # requests[c])
          => /\ requests'[c].pc = "done"
             /\ ~requests'[c].thrown
             /\ requests'[c].value = requests[c].user
             /\ requests'[c].value.id = requests[c].id
             /\ \E u \in prisma'.user : u.id = requests[c].id
             /\ prisma' = prisma
             /\ store' = store]_vars

\* findOne has returned the database row although its cache write failed
C28_Witness ==
    \E c \in Clients :
        /\ requests[c].pc = "done"
        /\ requests[c].route = "findOne"
        /\ ~requests[c].thrown
        /\ requests[c].log = <<"warn: Erro ao armazenar no cache">>
        /\ requests[c].reads = 1
        /\ requests[c].value.id = requests[c].id
        /\ CacheKey(requests[c].id) \notin DOMAIN store

\* update has returned the updated user although its cache delete failed,
\* and the stale entry is still in the cache
C28_WitnessUpdate ==
    \E c \in Clients :
        /\ requests[c].pc = "done"
        /\ requests[c].route = "update"
        /\ ~requests[c].thrown
        /\ requests[c].log = <<"warn: Erro ao invalidar cache">>
        /\ requests[c].value.name = requests[c].body.name
        /\ \E u \in prisma.user : u.name = requests[c].body.name
        /\ CacheKey(requests[c].id) \in DOMAIN store

\* C29: publishBankingDetailsUpdated publishes nothing and raises nothing
\* when the broker is not connected; connected, it raises an error and
\* publishes nothing for an event that fails validation, publishes a valid
\* event, and hands on the error of a publish that fails; no event on the
\* exchange is an invalid one.
C29_PublishContract ==
    [][(res'.op = "publishBankingDetailsUpdated" /\ res = NoCall)
       => LET connected == rabbit.connection /\ rabbit.channel
              valid == /\ res'.bankingDetails.agency # Undefined
                       /\ res'.bankingDetails.account # Undefined
          IN  /\ ~connected
                 => ~res'.result.thrown /\ rabbit' = rabbit
              /\ (connected /\ ~valid)
                 => /\ res'.result.thrown
                    /\ res'.result.error.type = "Error"
                    /\ rabbit' = rabbit
              /\ (connected /\ valid /\ rabbit.open)
                 => /\ ~res'.result.thrown
                    /\ Len(rabbit'.exchange) = Len(rabbit.exchange) + 1
                    /\ SubSeq(rabbit'.exchange, 1, Len(rabbit.exchange))
                           = rabbit.exchange
                    /\ LET m == rabbit'.exchange[Len(rabbit'.exchange)]
                       IN  /\ m.routingKey = "user.banking-details.updated"
                           /\ m.message.userId = res'.userId
                           /\ m.message.bankingDetails = res'.bankingDetails
                           /\ m.message.source = "user-service"
              /\ (connected /\ valid /\ ~rabbit.open)
                 => /\ res'.result.thrown
                    /\ res'.result.error.message = "Channel closed"
                    /\ rabbit' = rabbit
              /\ \A i \in 1..Len(rabbit'.exchange) :
                     /\ rabbit'.exchange[i].message.bankingDetails.agency
                            # Undefined
                     /\ rabbit'.exchange[i].message.bankingDetails.account
                            # Undefined]_vars

\* connected to the broker, an event without an account was refused with an
\* error and the exchange holds nothing
C29_Witness ==
    /\ res.op = "publishBankingDetailsUpdated"
    /\ res.connected
    /\ rabbit.open
    /\ res.bankingDetails.account = Undefined
    /\ res.result.thrown
    /\ res.result.log = <<"error: Evento invalido">>
    /\ rabbit.exchange = <<>>

\* the other outcomes: skipped while not connected, published, and a publish
\* that failed on a channel closed under the service
C29_WitnessSkipped ==
    /\ res.op = "publishBankingDetailsUpdated"
    /\ ~res.connected /\ ~res.result.thrown /\ rabbit.exchange = <<>>

C29_WitnessPublished ==
    /\ res.op = "publishBankingDetailsUpdated"
    /\ res.connected /\ ~res.result.thrown /\ Len(rabbit.exchange) = MaxEvents

C29_WitnessPublishFailed ==
    /\ res.op = "publishBankingDetailsUpdated"
    /\ res.connected /\ res.result.thrown
    /\ res.result.error.message = "Channel closed"

\* C30: within update an event reaches the exchange only in the step after
\* the upsert has written the banking details, and only for a body that
\* carries banking details; a publication that fails leaves the database
\* as it is, update goes on to its second read, and an update whose
\* publication failed still returns the user with the banking details.
C30_PublishAfterUpsert ==
    [][\A c \in Clients :
          LET r == requests[c]
              q == requests'[c]
          IN  /\ (r.pc # "idle" /\ r.route = "update" /\ q # r
                  /\ rabbit'.exchange # rabbit.exchange)
                 => /\ r.pc = "update.publish"
                    /\ r.bankingDetailsUpdated
                    /\ r.body.bankingDetails # NoRow
                    /\ r.body.bankingDetails # NullObject
                    /\ \E b \in prisma.bankingDetails :
                           /\ b.userId = r.id
                           /\ b.agency = r.body.bankingDetails.agency
                           /\ b.accountNumber
                                  = r.body.bankingDetails.accountNumber
                    /\ rabbit'.exchange[Len(rabbit'.exchange)].message.userId
                           = r.id
              /\ (r.pc = "update.publish" /\ q # r
                  /\ rabbit'.exchange = rabbit.exchange)
                 => /\ q.pc = "update.findUpdated"
                    /\ ~q.thrown
                    /\ prisma' = prisma
              /\ (q.pc = "done" /\ q.route = "update"
                  /\ \E i \in 1..Len(q.log) :
                         q.log[i] = "error: Erro ao publicar evento")
                 => /\ ~q.thrown
                    /\ q.value.bankingDetails # NoRow
                    /\ \E b \in prisma'.bankingDetails : b.userId = q.id]_vars

\* an update with banking details has returned the user with them although
\* the publication failed on a closed channel: the row is in the database
\* and nothing is on the exchange
C30_Witness ==
    \E c \in Clients :
        /\ requests[c].pc = "done"
        /\ requests[c].route = "update"
        /\ ~requests[c].thrown
        /\ requests[c].bankingDetailsUpdated
        /\ \E i \in 1..Len(requests[c].log) :
               requests[c].log[i] = "error: Erro ao publicar evento"
        /\ requests[c].value.bankingDetails.agency
               = requests[c].body.bankingDetails.agency
        /\ \E b \in prisma.bankingDetails : b.userId = requests[c].id
        /\ rabbit.exchange = <<>>

\* an update with banking details has returned and its event is on the
\* exchange
C30_WitnessPublished ==
    \E c \in Clients :
        /\ requests[c].pc = "done"
        /\ requests[c].route = "update"
        /\ ~requests[c].thrown
        /\ \E i \in 1..Len(requests[c].log) :
               requests[c].log[i] = "log: Evento publicado"
        /\ Len(rabbit.exchange) = 1
        /\ rabbit.exchange[1].message.userId = requests[c].id

\* C31: whatever a concurrent revocation does, refresh hands out a new
\* access token only from the step after the revocation check inside
\* refreshAccessToken, and reaches that step only if the store answered and
\* held no entry for the refresh token's jti at that check; an entry that
\* is there at the check makes refresh fail with an authentication error,
\* and a refresh that fails mints nothing.
C31_RefreshAfterLastCheck ==
    [][/\ \A c \in Clients :
            LET r == requests[c]
                q == requests'[c]
            IN  (r.pc # "idle" /\ r.route = "refresh" /\ q # r
                 /\ q.pc # "idle")
                => /\ (r.pc = "refresh.exists" /\ r.check = 2)
                      => IF redisUp
                            /\ BlacklistKey(r.token.claims.jti)
                                   \notin DOMAIN store
                         THEN q.pc = "refresh.sign"
                         ELSE /\ q.pc = "done" /\ q.thrown
                              /\ q.error.type = "UnauthorizedException"
                   /\ q.pc = "refresh.sign"
                      => r.pc = "refresh.exists" /\ r.check = 2
                   /\ (q.pc = "done" /\ ~q.thrown)
                      => /\ r.pc = "refresh.sign"
                         /\ q.value.sig = AccessTokenSecret
                         /\ q.value.claims.sub = r.token.claims.sub
                         /\ q.value.claims.jti # r.token.claims.jti
                         /\ refreshed' = refreshed \cup
                                {[refreshToken |-> r.token,
                                  accessToken |-> q.value]}
                   /\ q.thrown
                      => refreshed' = refreshed /\ uuidCount' = uuidCount
       /\ refreshed' # refreshed
          => \E c \in Clients : requests[c].pc = "refresh.sign"
                                  /\ requests'[c].pc = "done"]_vars

\* a refresh whose first check passed has failed at the check inside
\* refreshAccessToken, the token having been revoked in between
C31_Witness ==
    \E c \in Clients :
        /\ requests[c].pc = "done"
        /\ requests[c].route = "refresh"
        /\ requests[c].check = 2
        /\ requests[c].thrown
        /\ redisUp
        /\ \E u \in users : u.id = requests[c].token.claims.sub
        /\ now < requests[c].token.claims.exp
        /\ BlacklistKey(requests[c].token.claims.jti) \in DOMAIN store
        /\ refreshed = {}

\* a refresh has returned a new access token although the refresh token was
\* revoked after the last check
C31_WitnessLateRevocation ==
    \E c \in Clients :
        /\ requests[c].pc = "done"
        /\ requests[c].route = "refresh"
        /\ ~requests[c].thrown
        /\ BlacklistKey(requests[c].token.claims.jti) \in DOMAIN store
        /\ store[BlacklistKey(requests[c].token.claims.jti)].value.revokedAt
               = requests[c].value.claims.iat

\* C32: in the pipeline JwtAuthGuard then RolesGuard every identity the
\* guard attaches has a role; a valid token without a role claim, which
\* every token issued by login is, gets role 'user'; the 'no role assigned'
\* denial is never the answer to an authenticated request; and a request
\* with such a token to a route with required roles is allowed exactly
\* when 'user' is one of them
C32_AttachedIdentityHasRole ==
    (res.op = "pipeline" /\ ~res.isPublic) =>
        LET r == res.result
            token == ExtractTokenFromHeader(res.authHeader)
            required == res.requiredRoles
            restricted == required.defined /\ Len(required.roles) > 0
        IN  /\ IF r.stage = "JwtAuthGuard"
               THEN r.thrown /\ r.user = NoUser
               ELSE r.stage = "RolesGuard" /\ r.user # NoUser
            /\ r.stage = "RolesGuard" =>
                /\ r.user.role \notin {NoRole, ""}
                /\ r.user.userId = token.claims.sub
                /\ token.claims.role \in {NoRole, ""} => r.user.role = "user"
                /\ token.claims.role \notin {NoRole, ""} =>
                       r.user.role = token.claims.role
                /\ (\E p \in issued : p.accessToken = token) =>
                       r.user.role = "user"
                /\ r.thrown =>
                    /\ r.error.type = "ForbiddenException"
                    /\ r.error.message[1] = "Acesso negado. Role requerida: "
                /\ ~restricted => r.value /\ ~r.thrown
                /\ restricted =>
                    /\ r.value = ~r.thrown
                    /\ r.value =
                           (\E i \in 1..Len(required.roles) :
                                required.roles[i] = r.user.role)
                    /\ token.claims.role \in {NoRole, ""} =>
                           (r.value =
                                (\E i \in 1..Len(required.roles) :
                                     required.roles[i] = "user"))

\* a login token has passed both guards on a route that requires 'user'
C32_Witness ==
    /\ res.op = "pipeline"
    /\ ~res.isPublic
    /\ \E p \in issued : p.accessToken = res.authHeader.token
    /\ res.result.stage = "RolesGuard"
    /\ res.result.value
    /\ res.requiredRoles.defined
    /\ res.requiredRoles.roles = <<"admin", "user">>

\* a login token is denied on an admin-only route, for its role 'user'
C32_WitnessDenied ==
    /\ res.op = "pipeline"
    /\ ~res.isPublic
    /\ \E p \in issued : p.accessToken = res.authHeader.token
    /\ res.result.stage = "RolesGuard"
    /\ res.result.thrown
    /\ res.requiredRoles.roles = <<"admin">>
    /\ res.result.error.message[4] = "user"

\* an access token with an empty role claim is treated as role 'user'
C32_WitnessEmptyRole ==
    /\ res.op = "pipeline"
    /\ ~res.isPublic
    /\ res.authHeader.token = AccessTokenWithRole("")
    /\ res.result.stage = "RolesGuard"
    /\ res.result.user.role = "user"
    /\ res.result.value
    /\ res.requiredRoles.defined
    /\ Len(res.requiredRoles.roles) > 0

\* C33: of two register calls with the same email that have both finished,
\* at most one has succeeded, and each one that failed has failed with
\* ConflictException, also when both ran their existence check before
\* either ran its create
C33_ConcurrentRegisterConflict ==
    \A p, q \in Procs :
        (/\ p # q
         /\ registering[p].pc = "done"
         /\ registering[q].pc = "done"
         /\ registering[p].registerDto.email =
                registering[q].registerDto.email) =>
            /\ registering[p].thrown \/ registering[q].thrown
            /\ registering[p].thrown =>
                   registering[p].error.type = "ConflictException"
            /\ registering[q].thrown =>
                   registering[q].error.type = "ConflictException"

\* C34: when no update of a user is in progress (each one has returned),
\* the cache entry user:{id}, if there is one, holds the record as the
\* database has it now, never the record from before an update: a findOne
\* that read the database before the update does not put its stale record
\* into the cache after the update has deleted the entry
C34_CacheCoherent ==
    \A u \in prisma.user :
        (\A c \in ConcurrentClients :
             requests[c].pc \in {"idle", "done"}
                 \/ requests[c].route # "update"
                 \/ requests[c].id # u.id) =>
            \/ CacheKey(u.id) \notin DOMAIN store
            \/ store[CacheKey(u.id)].value =
                   JsonStringify(PrismaUserFindUnique(prisma, u.id))

\* C35: reconnectAttempts is never above maxReconnectAttempts, and while it
\* equals it no handleConnectionError call adds a reconnect; every connect
\* that succeeds leaves reconnectAttempts at 0 and reconnectDelay at 1000;
\* reconnectDelay is never above 30000
C35_ReconnectBounded ==
    [][/\ rabbit.reconnectAttempts \in 0..maxReconnectAttempts
       /\ rabbit'.reconnectAttempts \in 0..maxReconnectAttempts
       /\ rabbit.reconnectDelay \in InitialReconnectDelay..MaxReconnectDelay
       /\ rabbit'.reconnectDelay \in InitialReconnectDelay..MaxReconnectDelay
       /\ (/\ rabbit.reconnectAttempts = maxReconnectAttempts
           /\ rabbit'.reconnectAttempts = maxReconnectAttempts)
              => Pending(rabbit') <= Pending(rabbit)
       /\ rabbit'.live > rabbit.live =>
              /\ rabbit'.reconnectAttempts = 0
              /\ rabbit'.reconnectDelay = InitialReconnectDelay
              /\ IsConnected(rabbit')
       /\ rabbit'.reconnectAttempts < rabbit.reconnectAttempts =>
              rabbit'.live > rabbit.live
       /\ rabbit'.reconnectDelay < rabbit.reconnectDelay =>
              rabbit'.live > rabbit.live]_vars

\* the last attempt is used up and the delay is at its limit while
\* reconnect callbacks are still scheduled
C35_Witness ==
    /\ rabbit.reconnectAttempts = maxReconnectAttempts
    /\ rabbit.reconnectDelay = MaxReconnectDelay
    /\ rabbit.timers > 0
    /\ rabbit.handling = 0
    /\ rabbit.handlingInConnect = 0
    /\ rabbit.live = 0
    /\ rabbit.closing = 0

\* a reconnect has succeeded after failed ones and has reset both fields
C35_WitnessReset ==
    /\ rabbit.reconnectAttempts = 0
    /\ rabbit.reconnectDelay = InitialReconnectDelay
    /\ rabbit.settingUp > 0
    /\ rabbit.timers > 1

\* C36: at most one reconnect attempt is pending at any time: there is
\* never more than one scheduled reconnect timer, and the 'close' of a
\* connection whose loss was already answered (after its 'error', or after
\* the service closed it) consumes no further reconnect attempt
C36_SingleReconnectPending ==
    [][/\ rabbit'.timers <= 1
       /\ rabbit'.closing < rabbit.closing =>
              rabbit'.reconnectAttempts = rabbit.reconnectAttempts]_vars

\* C37: for every message the consumer callback was called with, at most
\* one of ack and nack is ever called, and exactly one once its processing
\* has ended: ack only when the handler resolved before the timeout, nack
\* without requeue after a parse error, a handler error or the timeout; a
\* handler that completes after the timeout adds no call
C37_ExactlyOneAcknowledgement ==
    \A i \in 1..Len(rabbit.messages) :
        LET m == rabbit.messages[i]
        IN  /\ Len(m.calls) <= 1
            /\ m.pc = "racing" => m.calls = <<>>
            /\ m.pc = "done" =>
                /\ Len(m.calls) = 1
                /\ m.calls[1].op = "ack" <=> m.outcome = "resolved"
                /\ m.calls[1].op = "nack" <=>
                       m.outcome \in {"parse error", "handler error",
                                      "timeout"}
                /\ m.calls[1].op = "nack" => ~m.calls[1].requeue

====
